---- MODULE Spec2Model ----
(***************************************************************************)
(* A model of github.com/m1a9s9a4/autofill: the population engine          *)
(* (Fill / FillWithIndex / FillSlice, overrides, tag dispatch, coercion)   *)
(* and the rule registry (rules.RuleSet) with its RWMutex.                 *)
(*                                                                         *)
(* Go strings are modelled as sequences of code points, so that            *)
(* fmt.Sprintf, string(rune) conversion, Sscanf and strings.Split are      *)
(* computed and not assumed.                                               *)
(***************************************************************************)
EXTENDS Integers, Sequences, FiniteSets, TLC

VARIABLES
    a,      \* the Autofill instance: locale, seed, rules, defaults
    typ,    \* the struct type of the records being populated (its fields)
    recs,   \* the caller's slice of records (recs[1] is also the Fill target)
    last,   \* the last population call: its arguments, its result, recs before it
    sets,   \* registry, sequential use: the RuleSet objects (each names its map)
    maps,   \* registry, sequential use: the Go maps the RuleSets point to
    clock,  \* population engine: the reading of the wall clock (time.Now())
    twin,   \* population engine: the record a second instance of the same
            \* configuration has populated
    ctxs,   \* contexts: the context structs allocated, by address
    fmaps,  \* contexts: the field maps allocated, by address
    omaps,  \* overrides: the Override maps allocated, by address
    rlast,  \* registry, sequential use: the last registry call and its result
    mu,     \* registry, concurrent use: each RuleSet's RWMutex
    rules,  \* registry, concurrent use: each RuleSet's rules map
    pc,     \* registry, concurrent use: each goroutine's position in its call
    call,   \* registry, concurrent use: each goroutine's current call
    ser     \* registry, concurrent use: the mapping of the serial order of calls

fillVars == <<a, typ, recs, last, clock, twin, ctxs, fmaps, omaps>>
seqVars  == <<sets, maps, rlast>>
concVars == <<mu, rules, pc, call, ser>>
vars     == <<a, typ, recs, last, clock, twin, ctxs, fmaps, omaps, sets, maps, rlast, mu, rules, pc, call, ser>>

-----------------------------------------------------------------------------
(* Bounds of the model *)

MaxLen   == 2      \* length of the caller's slice
MaxIndex == 2      \* largest index passed to FillWithIndex
IntBits  == 16     \* width of the model's int
MaxClock == 2      \* latest reading of the clock
MaxCtxs  == 4      \* contexts allocated in a chain of derivations
MaxMaps  == 3      \* override maps a caller passes to one call

-----------------------------------------------------------------------------
(* Strings: sequences of code points *)

\* the string literals of the generators and of the built-in rules
Lit ==
    [ hello |-> <<104, 101, 108, 108, 111>>,                                   \* "hello"
      world |-> <<119, 111, 114, 108, 100>>,                                   \* "world"
      test |-> <<116, 101, 115, 116>>,                                         \* "test"
      sample |-> <<115, 97, 109, 112, 108, 101>>,                              \* "sample"
      data |-> <<100, 97, 116, 97>>,                                           \* "data"
      value |-> <<118, 97, 108, 117, 101>>,                                    \* "value"
      string |-> <<115, 116, 114, 105, 110, 103>>,                             \* "string"
      text |-> <<116, 101, 120, 116>>,                                         \* "text"
      user |-> <<117, 115, 101, 114>>,                                         \* "user"
      demo |-> <<100, 101, 109, 111>>,                                         \* "demo"
      at |-> <<64>>,                                                           \* "@"
      example_com |-> <<101, 120, 97, 109, 112, 108, 101, 46, 99, 111, 109>>,  \* "example.com"
      test_com |-> <<116, 101, 115, 116, 46, 99, 111, 109>>,                   \* "test.com"
      mail_com |-> <<109, 97, 105, 108, 46, 99, 111, 109>>,                    \* "mail.com"
      email_com |-> <<101, 109, 97, 105, 108, 46, 99, 111, 109>>,              \* "email.com"
      demo_org |-> <<100, 101, 109, 111, 46, 111, 114, 103>>,                  \* "demo.org"
      sample_net |-> <<115, 97, 109, 112, 108, 101, 46, 110, 101, 116>>,       \* "sample.net"
      https |-> <<104, 116, 116, 112, 115>>,                                   \* "https"
      colon_slashes |-> <<58, 47, 47>>,                                        \* "://"
      slash |-> <<47>>,                                                        \* "/"
      home |-> <<47, 104, 111, 109, 101>>,                                     \* "/home"
      about |-> <<47, 97, 98, 111, 117, 116>>,                                 \* "/about"
      contact |-> <<47, 99, 111, 110, 116, 97, 99, 116>>,                      \* "/contact"
      products |-> <<47, 112, 114, 111, 100, 117, 99, 116, 115>>,              \* "/products"
      services |-> <<47, 115, 101, 114, 118, 105, 99, 101, 115>> ]             \* "/services"

\* strings the callers of the model pass
S_adm      == <<97, 100, 109>>
S_root     == <<114, 111, 111, 116>>
S_usr      == <<117, 115, 114>>

\* Go's % truncates toward zero: the remainder has the sign of the dividend.
\* (the divisor's sign does not matter; a zero divisor panics and is the
\* caller's to exclude)
GoMod(x, n) ==
    IF x >= 0 THEN x % (IF n < 0 THEN -n ELSE n)
    ELSE -((-x) % (IF n < 0 THEN -n ELSE n))

\* Go's int is as wide as the machine word (64 bits in the usual build). The
\* model's word has IntBits bits, and the arithmetic of the tag dispatcher wraps
\* around at that width as the machine's does.
MinInt == -(2 ^ (IntBits - 1))
MaxInt == 2 ^ (IntBits - 1) - 1
IntWrap(n) == ((n - MinInt) % (2 ^ IntBits)) + MinInt

RECURSIVE Digits(_)
Digits(n) == IF n < 10 THEN <<48 + n>> ELSE Digits(n \div 10) \o <<48 + (n % 10)>>

\* fmt's %d verb
Itoa(n) == IF n < 0 THEN <<45>> \o Digits(-n) ELSE Digits(n)

\* the words of the tag language and the names of the built-in rules
K ==
    [ seq |-> <<115, 101, 113>>,                                               \* "seq"
      now |-> <<110, 111, 119>>,                                               \* "now"
      email |-> <<101, 109, 97, 105, 108>>,                                    \* "email"
      url |-> <<117, 114, 108>>,                                               \* "url"
      uuid |-> <<117, 117, 105, 100>>,                                         \* "uuid"
      rule |-> <<114, 117, 108, 101>>,                                         \* "rule"
      min |-> <<109, 105, 110>>,                                               \* "min"
      max |-> <<109, 97, 120>>,                                                \* "max"
      oneof |-> <<111, 110, 101, 111, 102>>,                                   \* "oneof"
      alphanumeric |-> <<97, 108, 112, 104, 97, 110, 117, 109, 101, 114, 105, 99>>, \* "alphanumeric"
      bool |-> <<98, 111, 111, 108>>,                                          \* "bool"
      skip |-> <<45>>,                                                         \* "-"
      name |-> <<110, 97, 109, 101>> ]  \* "name", a caller's rule

\* the autofill tags of the fields
Tag ==
    [ seq |-> <<115, 101, 113>>,                                               \* "seq"
      email |-> <<101, 109, 97, 105, 108>>,                                    \* "email"
      range |-> <<109, 105, 110, 61, 49, 56, 44, 109, 97, 120, 61, 49, 57>>,   \* "min=18,max=19"
      oneof |-> <<111, 110, 101, 111, 102, 61, 97, 124, 98>>,                  \* "oneof=a|b"
      skip |-> <<45>>,                                                         \* "-"
      rule |-> <<114, 117, 108, 101, 61, 101, 109, 97, 105, 108>>,             \* "rule=email"
      norule |-> <<114, 117, 108, 101, 61, 110, 97, 109, 101>>,                \* "rule=name"
      seq_rule |-> <<115, 101, 113, 44, 114, 117, 108, 101, 61, 101, 109, 97, 105, 108>>,  \* "seq,rule=email"
      oneof_rule |-> <<111, 110, 101, 111, 102, 61, 97, 124, 98, 44, 114, 117, 108, 101, 61, 117, 117, 105, 100>>,  \* "oneof=a|b,rule=uuid"
      range_rule |-> <<109, 105, 110, 61, 49, 56, 44, 109, 97, 120, 61, 49, 57, 44, 114, 117, 108, 101, 61, 110, 97, 109, 101>>,  \* "min=18,max=19,rule=name"
      same |-> <<109, 105, 110, 61, 53, 44, 109, 97, 120, 61, 53>>,  \* "min=5,max=5"
      now |-> K.now, uuid |-> K.uuid,
      inverted_oneof |-> <<109, 105, 110, 61, 57, 44, 109, 97, 120, 61, 49, 44, 111, 110, 101, 111, 102, 61, 97, 124, 98>>,  \* "min=9,max=1,oneof=a|b"
      \* the widest range of the int: "min=<MinInt>,max=<MaxInt>"
      widest |-> <<109, 105, 110, 61>> \o Itoa(MinInt) \o <<44, 109, 97, 120, 61>> \o Itoa(MaxInt),
      unknown |-> <<102, 111, 111>>,                                           \* "foo"
      inverted |-> <<109, 105, 110, 61, 57, 44, 109, 97, 120, 61, 49>>,        \* "min=9,max=1"
      min_only |-> <<109, 105, 110, 61, 53>>,                                  \* "min=5"
      unknown_kv |-> <<102, 111, 111, 61, 98, 97, 114>>,                       \* "foo=bar"
      url |-> K.url, alphanumeric |-> K.alphanumeric ]

\* a struct field as reflection gives it: name, type, tag, and whether it can
\* be set (it is exported)
Field(name, type, tag) == [name |-> name, type |-> type, tag |-> tag, settable |-> TRUE]

-----------------------------------------------------------------------------
(* Values: an interface{} value is its dynamic type and its payload *)

Nil        == [t |-> "nil", v |-> <<>>]
Str(s)     == [t |-> "string", v |-> s]
IntV(n)    == [t |-> "int", v |-> n]
Int64V(n)  == [t |-> "int64", v |-> n]
Int8V(n)   == [t |-> "int8", v |-> n]
BoolV(b)   == [t |-> "bool", v |-> b]

IntKinds == {"int", "int8", "int64"}

\* The struct types a field can have besides time.Time, by name: Inner with
\* fields the engine can fill, Mistagged with a tag whose value its field
\* cannot hold. A struct value is the record of its fields' values.
Nested ==
    [ Inner     |-> <<Field("Name", "string", <<>>), Field("ID", "int64", Tag.seq),
                      Field("Code", "string", Tag.uuid)>>,
      Mistagged |-> <<Field("N", "int", Tag.oneof)>> ]
StructKinds == DOMAIN Nested
StructV(type, fields) == [t |-> type, v |-> fields]

\* Slice types; a slice value is the sequence of its elements (nil: none)
SliceKinds == {"[]string", "[]Inner", "[]Mistagged"}
SliceV(type, elems) == [t |-> type, v |-> elems]

\* Pointer types and their element type; a pointer value is its pointee, or Nil
PtrKinds == {"*string", "*int", "*Inner", "*Mistagged"}
Elem(type) ==
    CASE type = "*string" -> "string"
      [] type = "[]string" -> "string"
      [] type \in {"*Inner", "[]Inner"} -> "Inner"
      [] type \in {"*Mistagged", "[]Mistagged"} -> "Mistagged"
      [] OTHER -> "int"
PtrTo(type, pointee) == [t |-> type, v |-> pointee]
NilPtr(type) == [t |-> type, v |-> Nil]

\* a time.Time: a reading of the clock and the days added to it
TimeV(at, days) == [t |-> "time", v |-> [at |-> at, days |-> days]]

\* The zero value of a field of the given type.
RECURSIVE Zero(_)
Zero(type) ==
    CASE type = "string"   -> Str(<<>>)
      [] type = "time"     -> TimeV(0, 0)
      [] type = "bool"     -> BoolV(FALSE)
      [] type \in PtrKinds -> NilPtr(type)
      [] type \in SliceKinds -> SliceV(type, <<>>)
      [] type \in StructKinds ->
            StructV(type, [n \in {Nested[type][i].name : i \in 1..Len(Nested[type])} |->
                Zero(Nested[type][CHOOSE i \in 1..Len(Nested[type]) :
                                    Nested[type][i].name = n].type)])
      [] OTHER             -> [t |-> type, v |-> 0]

\* Two's complement wrap-around of a conversion to a narrower integer type.
\* int and int64 are 64 bits wide: no number of the model leaves their range.
WrapInt(n, type) ==
    IF type = "int8" THEN ((n + 128) % 256) - 128 ELSE n

\* reflect.Type.ConvertibleTo, for the types of the model: integers convert to
\* integers and to string, a type converts to itself, nothing else converts.
ConvertibleTo(from, to) ==
    \/ from = to
    \/ from \in IntKinds /\ to \in IntKinds
    \/ from \in IntKinds /\ to = "string"

\* reflect.Value.Convert: integer to integer wraps to the width; integer to
\* string yields the one-rune string of that code point (U+FFFD when invalid).
Convert(val, to) ==
    CASE val.t = to -> val
      [] val.t \in IntKinds /\ to \in IntKinds -> [t |-> to, v |-> WrapInt(val.v, to)]
      [] val.t \in IntKinds /\ to = "string" ->
            Str(<<IF val.v >= 0 /\ val.v <= 1114111 /\ ~(val.v >= 55296 /\ val.v <= 57343)
                  THEN val.v ELSE 65533>>)
      [] OTHER -> val

-----------------------------------------------------------------------------
(* Errors: the innermost cause, the stage of FillWithIndex that wrapped it,
   the field it names and (FillSlice) the position of the failing element *)

NoErr == [msg |-> "nil", stage |-> "", field |-> "", elem |-> -1]
Err(m) == [msg |-> m, stage |-> "", field |-> "", elem |-> -1]
IsErr(e) == e.msg # "nil"

-----------------------------------------------------------------------------
(* Type-safe coercion *)

\* setFieldValue's answer with the type test it relies on.
setFieldValue(fieldType, old, value) ==
    IF value.t = "nil" THEN [val |-> old, err |-> NoErr]
    ELSE IF fieldType \in PtrKinds /\ ConvertibleTo(value.t, Elem(fieldType))
    THEN [val |-> PtrTo(fieldType, Convert(value, Elem(fieldType))), err |-> NoErr]
    ELSE IF value.t = fieldType THEN [val |-> value, err |-> NoErr]
    ELSE IF ConvertibleTo(value.t, fieldType)
         THEN [val |-> Convert(value, fieldType), err |-> NoErr]
    ELSE [val |-> old, err |-> Err("cannot set field")]

-----------------------------------------------------------------------------
(* Overrides and sequence functions *)

SeqF(prefix)      == [t |-> "SequenceFunc", v |-> [f |-> "Seq", s |-> prefix, n |-> 0, tab |-> <<>>]]
SeqIntF(start)    == [t |-> "SequenceFunc", v |-> [f |-> "SeqInt", s |-> <<>>, n |-> start, tab |-> <<>>]]
SeqInt64F(start)  == [t |-> "SequenceFunc", v |-> [f |-> "SeqInt64", s |-> <<>>, n |-> start, tab |-> <<>>]]
\* a caller's own SequenceFunc, given by its values at the indices 0, 1, ...
\* (its last value at every later index)
TableF(tab)       == [t |-> "SequenceFunc", v |-> [f |-> "table", s |-> <<>>, n |-> 0, tab |-> tab]]

\* The call fn(index) of a SequenceFunc. Seq's format is prefix%d.
ApplySeq(fn, index) ==
    CASE fn.f = "Seq"      -> Str(fn.s \o Itoa(index))
      [] fn.f = "SeqInt"   -> IntV(fn.n + index)
      [] fn.f = "SeqInt64" -> Int64V(fn.n + index)
      [] OTHER             -> IF index + 1 <= Len(fn.tab) /\ index >= 0
                              THEN fn.tab[index + 1] ELSE fn.tab[Len(fn.tab)]

\* resolveOverride forgetting the index: every element gets the function's first value
resolveOverride_NoIndex(value, index) ==
    IF value.t = "SequenceFunc" THEN ApplySeq(value.v, 0) ELSE value

resolveOverride(value, index) ==
    IF value.t = "SequenceFunc" THEN ApplySeq(value.v, index) ELSE value

EmptyOverride == [k \in {} |-> Nil]

\* One map written over another: the entries of m2 win.
MapOver(m1, m2) ==
    [k \in DOMAIN m1 \cup DOMAIN m2 |-> IF k \in DOMAIN m2 THEN m2[k] ELSE m1[k]]

RECURSIVE MergeFrom(_, _, _)
MergeFrom(overrides, i, merged) ==
    IF i > Len(overrides) THEN merged
    ELSE MergeFrom(overrides, i + 1, MapOver(merged, overrides[i]))

\* mergeOverrides with the earlier map winning
mergeOverrides_FirstWins(overrides) ==
    MergeFrom([k \in 1..Len(overrides) |-> overrides[Len(overrides) + 1 - k]],
              1, EmptyOverride)

mergeOverrides(overrides) ==
    IF Len(overrides) = 0 THEN EmptyOverride
    ELSE IF Len(overrides) = 1 THEN overrides[1]
    ELSE MergeFrom(overrides, 1, EmptyOverride)

\* The override maps of one call of an instance with defaults: the instance's
\* defaults first, the call's maps after them.
withDefaults(defaults, overrides) == <<defaults>> \o overrides

-----------------------------------------------------------------------------
(* Context *)

newContext(locale, seed, index) ==
    [locale |-> locale, seed |-> seed, index |-> index,
     fieldMap |-> EmptyOverride, hasStruct |-> FALSE, fieldName |-> ""]

\* st: the fields of the struct type, rec: the record's value. The snapshot
\* holds the fields that can be read through reflection (the exported ones).
withStruct(c, st, rec) ==
    [c EXCEPT !.hasStruct = TRUE,
              !.fieldMap = [n \in {st[i].name : i \in {j \in 1..Len(st) : st[j].settable}}
                              |-> rec[n]]]

withFieldName(c, name) == [c EXCEPT !.fieldName = name]

withIndex(c, index) == [c EXCEPT !.index = index]

\* val, ok := c.fieldMap[name]
GetField(c, name) ==
    [val |-> IF name \in DOMAIN c.fieldMap THEN c.fieldMap[name] ELSE Nil,
     ok |-> name \in DOMAIN c.fieldMap]

-----------------------------------------------------------------------------
(* The strings package, as far as the tag parser uses it *)

IsSpace(c) == c \in {32, 9, 10, 13}

RECURSIVE TrimLeft(_)
TrimLeft(s) == IF Len(s) > 0 /\ IsSpace(s[1]) THEN TrimLeft(Tail(s)) ELSE s

RECURSIVE TrimRight(_)
TrimRight(s) ==
    IF Len(s) > 0 /\ IsSpace(s[Len(s)]) THEN TrimRight(SubSeq(s, 1, Len(s) - 1)) ELSE s

TrimSpace(s) == TrimRight(TrimLeft(s))

\* strings.Split(s, sep) for a one-character separator: always at least one part.
RECURSIVE SplitFrom(_, _, _, _)
SplitFrom(s, sep, i, cur) ==
    IF i > Len(s) THEN <<cur>>
    ELSE IF s[i] = sep THEN <<cur>> \o SplitFrom(s, sep, i + 1, <<>>)
    ELSE SplitFrom(s, sep, i + 1, Append(cur, s[i]))

Split(s, sep) == SplitFrom(s, sep, 1, <<>>)

\* strings.Contains(s, c) for a one-character c
Contains(s, c) == \E i \in 1..Len(s) : s[i] = c

\* The position of the first c in s (0 when there is none).
IndexOf(s, c) == IF Contains(s, c) THEN CHOOSE i \in 1..Len(s) :
                        s[i] = c /\ \A j \in 1..(i - 1) : s[j] # c
                 ELSE 0

IsDigit(c) == c >= 48 /\ c <= 57

RECURSIVE ScanDigits(_, _, _)
ScanDigits(s, i, acc) ==
    IF i <= Len(s) /\ IsDigit(s[i]) THEN ScanDigits(s, i + 1, acc * 10 + (s[i] - 48))
    ELSE acc

\* fmt.Sscanf(s, "%d", &n) into a zero n: leading space is skipped, a sign is
\* read, then the digits up to the first other character; without a digit the
\* scan fails and n stays 0 (the error is not looked at).
ScanSigned(t) ==
    IF Len(t) > 0 /\ t[1] = 45 THEN -ScanDigits(t, 2, 0)
    ELSE IF Len(t) > 0 /\ t[1] = 43 THEN ScanDigits(t, 2, 0)
    ELSE ScanDigits(t, 1, 0)

\* a number that does not fit the int is a scan error too
Sscanf(s) ==
    IF ScanSigned(TrimLeft(s)) < MinInt \/ ScanSigned(TrimLeft(s)) > MaxInt THEN 0
    ELSE ScanSigned(TrimLeft(s))


RECURSIVE ParseFrom(_, _, _)
ParseFrom(parts, i, params) ==
    IF i > Len(parts) THEN params
    ELSE LET part == TrimSpace(parts[i])
             eq == IndexOf(part, 61)
         IN  IF eq = 0 THEN ParseFrom(parts, i + 1, params)
             ELSE LET key == TrimSpace(SubSeq(part, 1, eq - 1))
                      val == TrimSpace(SubSeq(part, eq + 1, Len(part)))
                  IN  ParseFrom(parts, i + 1,
                          [k \in DOMAIN params \cup {key} |->
                              IF k = key THEN val ELSE params[k]])

parseTagParams(parts) == ParseFrom(parts, 1, [k \in {} |-> <<>>])

-----------------------------------------------------------------------------
(* Rules *)

\* math/rand is outside the source: the string or bit it yields for a seed is
\* a fixed function of the seed, kept symbolic (no real string has a negative
\* code point).
RandString(what, seed) == Str(<<what, seed>>)
RandBelow(seed) == seed % 2 = 0


\* Rule.Generate of the built-in rules, and of three rules a caller writes: one
\* whose Generate returns an error, one whose Generate returns (nil, nil), one
\* that returns what ctx.GetField gives for a name and fails if there is none
RuleGenerate(rule, ctx) ==
    CASE rule.kind = "email" ->
            LET domains  == <<Lit.example_com, Lit.test_com, Lit.mail_com, Lit.email_com>>
                prefixes == <<Lit.user, Lit.test, Lit.demo, Lit.sample, Lit.hello>>
            IN  IF GoMod(ctx.index, 5) < 0 \/ GoMod(ctx.index, 4) < 0
                THEN [val |-> Nil, err |-> Err("panic")]
                ELSE [val |-> Str(prefixes[GoMod(ctx.index, 5) + 1] \o Itoa(ctx.index)
                                  \o Lit.at \o domains[GoMod(ctx.index, 4) + 1]),
                      err |-> NoErr]
      [] rule.kind = "url" ->
            LET domains == <<Lit.example_com, Lit.test_com, Lit.demo_org, Lit.sample_net>>
                paths   == <<Lit.slash, Lit.home, Lit.about, Lit.contact, Lit.products, Lit.services>>
            IN  IF GoMod(ctx.index, 4) < 0 \/ GoMod(ctx.index, 6) < 0
                THEN [val |-> Nil, err |-> Err("panic")]
                ELSE [val |-> Str(Lit.https \o Lit.colon_slashes
                                  \o domains[GoMod(ctx.index, 4) + 1]
                                  \o paths[GoMod(ctx.index, 6) + 1]),
                      err |-> NoErr]
      [] rule.kind = "uuid" ->
            [val |-> RandString(-1, ctx.seed + ctx.index), err |-> NoErr]
      [] rule.kind = "alphanumeric" ->
            [val |-> RandString(-2, ctx.seed + ctx.index), err |-> NoErr]
      [] rule.kind = "failing" ->
            [val |-> Nil, err |-> Err("rule failed")]
      [] rule.kind = "nothing" ->
            [val |-> Nil, err |-> NoErr]
      [] rule.kind = "sibling" ->
            IF GetField(ctx, rule.of).ok
            THEN [val |-> GetField(ctx, rule.of).val, err |-> NoErr]
            ELSE [val |-> Nil, err |-> Err("no such field")]
      [] OTHER ->
            [val |-> BoolV(RandBelow(ctx.seed + ctx.index)), err |-> NoErr]

\* The rules map of a RuleSet: rule name -> rule
DefaultRuleSet ==
    [n \in {K.email, K.url, K.uuid, K.alphanumeric, K.bool} |->
        CASE n = K.email -> [kind |-> "email"]
          [] n = K.url -> [kind |-> "url"]
          [] n = K.uuid -> [kind |-> "uuid"]
          [] n = K.alphanumeric -> [kind |-> "alphanumeric"]
          [] OTHER -> [kind |-> "bool"]]

\* DefaultRuleSet() with a caller's rule added under the name "name"
CallerRules(kind) ==
    [n \in DOMAIN DefaultRuleSet \cup {K.name} |->
        IF n = K.name THEN [kind |-> kind] ELSE DefaultRuleSet[n]]

\* DefaultRuleSet() with two rules of a caller that read a field of the struct
\* being filled: "name" reads Code, "uuid" reads Other
SiblingRules ==
    [n \in DOMAIN DefaultRuleSet \cup {K.name} |->
        CASE n = K.name -> [kind |-> "sibling", of |-> "Code"]
          [] n = K.uuid -> [kind |-> "sibling", of |-> "Other"]
          [] OTHER -> DefaultRuleSet[n]]

\* The RuleSets an instance is given: the default one, a caller's, none (nil)
RuleSets ==
    { [isNil |-> FALSE, m |-> DefaultRuleSet],
      [isNil |-> FALSE, m |-> CallerRules("failing")],
      [isNil |-> FALSE, m |-> CallerRules("nothing")],
      [isNil |-> FALSE, m |-> SiblingRules],
      [isNil |-> TRUE, m |-> <<>>] }

-----------------------------------------------------------------------------
(* Generators *)

Panic == [val |-> Nil, err |-> Err("panic")]
Produced(v) == [val |-> v, err |-> NoErr]

generateString(ctx) ==
    LET words == <<Lit.hello, Lit.world, Lit.test, Lit.sample, Lit.data, Lit.value, Lit.string, Lit.text>>
    IN  IF GoMod(ctx.index, 8) < 0 THEN Panic
        ELSE Produced(Str(words[GoMod(ctx.index, 8) + 1]))

generateInt(ctx) == Produced(Int64V(100 + GoMod(ctx.index, 900)))

generateBool(ctx) == Produced(BoolV(GoMod(ctx.index, 2) = 0))

generateEmail(ctx) ==
    LET domains  == <<Lit.example_com, Lit.test_com, Lit.mail_com>>
        prefixes == <<Lit.user, Lit.test, Lit.demo, Lit.sample>>
    IN  IF GoMod(ctx.index, 4) < 0 \/ GoMod(ctx.index, 3) < 0 THEN Panic
        ELSE Produced(Str(prefixes[GoMod(ctx.index, 4) + 1] \o Itoa(ctx.index)
                          \o Lit.at \o domains[GoMod(ctx.index, 3) + 1]))

generateURL(ctx) ==
    LET domains == <<Lit.example_com, Lit.test_com, Lit.demo_org>>
        paths   == <<Lit.slash, Lit.home, Lit.about, Lit.contact>>
    IN  IF GoMod(ctx.index, 3) < 0 \/ GoMod(ctx.index, 4) < 0 THEN Panic
        ELSE Produced(Str(Lit.https \o Lit.colon_slashes \o domains[GoMod(ctx.index, 3) + 1]
                          \o paths[GoMod(ctx.index, 4) + 1]))

generateUUID(ctx) == Produced(RandString(-1, ctx.seed + ctx.index))

\* time.Now()
Now == TimeV(clock, 0)

generateTime(ctx) == Produced(TimeV(clock, -GoMod(ctx.index, 365)))

\* a pointer to the element type's value: a nil pointer instead
PointerTo_Nil(type, elem) ==
    IF IsErr(elem.err) THEN elem ELSE Produced(NilPtr(type))

\* the reflect.Ptr case once the element type's value is generated
PointerTo(type, elem) ==
    IF IsErr(elem.err) THEN elem
    ELSE Produced(PtrTo(type, Convert(elem.val, Elem(type))))

\* the length generateByType asks generateSlice for
DefaultSliceLen == 3

RECURSIVE generateByType(_, _, _)
RECURSIVE generateValue(_, _, _)
RECURSIVE SliceElems(_, _, _, _, _, _)
RECURSIVE StructFields(_, _, _, _, _)

\* slice.Index(i).Set(reflect.ValueOf(val).Convert(elemType)) and on to the
\* next element; Convert panics on a value that does not convert
ElemSet(ruleSet, type, ctx, length, i, elems, gen) ==
    IF IsErr(gen.err) THEN [val |-> Nil, err |-> gen.err]
    ELSE IF ~ConvertibleTo(gen.val.t, Elem(type)) THEN Panic
    ELSE SliceElems(ruleSet, type, ctx, length, i + 1,
                    Append(elems, Convert(gen.val, Elem(type))))

\* the elements of a slice whose element i is generated with the index of
\* the context the slice is generated in
SliceElems_ParentIndex(ruleSet, type, ctx, length, i, elems) ==
    IF i >= length THEN Produced(SliceV(type, elems))
    ELSE ElemSet(ruleSet, type, ctx, length, i, elems,
                 generateByType(ruleSet, Elem(type), ctx))

\* the loop of generateSlice from element i (0-based) on
SliceElems(ruleSet, type, ctx, length, i, elems) ==
    IF i >= length THEN Produced(SliceV(type, elems))
    ELSE ElemSet(ruleSet, type, ctx, length, i, elems,
                 generateByType(ruleSet, Elem(type), withIndex(ctx, i)))

generateSlice(ruleSet, type, ctx, length) ==
    SliceElems(ruleSet, type, ctx, length, 0, <<>>)

\* fieldVal.Set(reflect.ValueOf(val).Convert(field.Type)) unless val is nil,
\* and on to the next field; Convert panics on a value that does not convert
FieldSet(ruleSet, st, rec, structCtx, i, gen) ==
    IF IsErr(gen.err) THEN [val |-> Nil, err |-> gen.err]
    ELSE IF gen.val.t = "nil"
    THEN StructFields(ruleSet, st, rec, structCtx, i + 1)
    ELSE IF ~ConvertibleTo(gen.val.t, st[i].type) THEN Panic
    ELSE StructFields(ruleSet, st,
                      [rec EXCEPT !.v[st[i].name] = Convert(gen.val, st[i].type)],
                      structCtx, i + 1)

\* the loop of fillStructValue from field i on; rec is the struct so far
StructFields(ruleSet, st, rec, structCtx, i) ==
    IF i > Len(st) THEN Produced(rec)
    ELSE IF ~st[i].settable
    THEN StructFields(ruleSet, st, rec, structCtx, i + 1)
    ELSE FieldSet(ruleSet, st, rec, structCtx, i,
                  generateValue(ruleSet, st[i], withFieldName(structCtx, st[i].name)))

\* a new struct of the type, filled field by field in a context that has the
\* new struct's fields as its snapshot
fillStructValue(ruleSet, type, ctx) ==
    StructFields(ruleSet, Nested[type], Zero(type),
                 withStruct(ctx, Nested[type], Zero(type).v), 1)

generateByType(ruleSet, type, ctx) ==
    CASE type = "string"   -> generateString(ctx)
      [] type \in IntKinds -> generateInt(ctx)
      [] type = "bool"     -> generateBool(ctx)
      [] type = "time"     -> generateTime(ctx)
      [] type \in PtrKinds -> PointerTo(type, generateByType(ruleSet, Elem(type), ctx))
      [] type \in SliceKinds -> generateSlice(ruleSet, type, ctx, DefaultSliceLen)
      [] type \in StructKinds -> fillStructValue(ruleSet, type, ctx)
      [] OTHER             -> [val |-> Nil, err |-> Err("unsupported type")]

\* ruleSet: the instance's RuleSet, [isNil, m]
HasRule(ruleSet, name) == ~ruleSet.isNil /\ name \in DOMAIN ruleSet.m

\* the switch on the first token of the tag
Keywords == {K.seq, K.now, K.email, K.url, K.uuid}
Builtin(mainTag, ctx) ==
    CASE mainTag = K.seq   -> Produced(Int64V(ctx.index))
      [] mainTag = K.now   -> Produced(Now)
      [] mainTag = K.email -> generateEmail(ctx)
      [] mainTag = K.url   -> generateURL(ctx)
      [] OTHER             -> generateUUID(ctx)

\* always the first option
FromOneOf_First(options, ctx) == Produced(Str(options[1]))

FromOneOf(options, ctx) ==
    IF GoMod(ctx.index, Len(options)) < 0 THEN Panic
    ELSE Produced(Str(options[GoMod(ctx.index, Len(options)) + 1]))

\* the oneof branch and the final return nil, nil
OneOfOrNothing(params, ctx) ==
    IF K.oneof \in DOMAIN params THEN FromOneOf(Split(params[K.oneof], 124), ctx)
    ELSE Produced(Nil)

\* the min/max branch once both tokens are scanned; min > max falls through
FromRange(min, max, params, ctx) ==
    IF min <= max
    THEN IF IntWrap(max - min + 1) = 0 THEN Panic    \* integer divide by zero
         ELSE Produced(IntV(IntWrap(min + GoMod(ctx.index, IntWrap(max - min + 1)))))
    ELSE OneOfOrNothing(params, ctx)

\* the rule= token looked at after the keywords and min/max
Dispatch_KeywordFirst(ruleSet, params, mainTag, ctx) ==
    IF ~Contains(mainTag, 61) /\ mainTag \in Keywords
    THEN Builtin(mainTag, ctx)
    ELSE IF K.min \in DOMAIN params /\ K.max \in DOMAIN params
    THEN FromRange(Sscanf(params[K.min]), Sscanf(params[K.max]), params, ctx)
    ELSE IF K.rule \in DOMAIN params
    THEN IF HasRule(ruleSet, params[K.rule])
         THEN RuleGenerate(ruleSet.m[params[K.rule]], ctx)
         ELSE [val |-> Nil, err |-> Err("rule not found")]
    ELSE OneOfOrNothing(params, ctx)

\* a bare first token looked up in the RuleSet before the keywords
Dispatch_RuleFirst(ruleSet, params, mainTag, ctx) ==
    IF K.rule \in DOMAIN params
    THEN IF HasRule(ruleSet, params[K.rule])
         THEN RuleGenerate(ruleSet.m[params[K.rule]], ctx)
         ELSE [val |-> Nil, err |-> Err("rule not found")]
    ELSE IF ~Contains(mainTag, 61) /\ HasRule(ruleSet, mainTag)
    THEN RuleGenerate(ruleSet.m[mainTag], ctx)
    ELSE IF ~Contains(mainTag, 61) /\ mainTag \in Keywords
    THEN Builtin(mainTag, ctx)
    ELSE IF K.min \in DOMAIN params /\ K.max \in DOMAIN params
    THEN FromRange(Sscanf(params[K.min]), Sscanf(params[K.max]), params, ctx)
    ELSE OneOfOrNothing(params, ctx)

\* generateFromTag after the tag is split: params are the key=value tokens,
\* mainTag the first token.
Dispatch(ruleSet, params, mainTag, ctx) ==
    IF K.rule \in DOMAIN params
    THEN IF HasRule(ruleSet, params[K.rule])
         THEN RuleGenerate(ruleSet.m[params[K.rule]], ctx)
         ELSE [val |-> Nil, err |-> Err("rule not found")]
    ELSE IF ~Contains(mainTag, 61) /\ mainTag \in Keywords
    THEN Builtin(mainTag, ctx)
    ELSE IF ~Contains(mainTag, 61) /\ HasRule(ruleSet, mainTag)
    THEN RuleGenerate(ruleSet.m[mainTag], ctx)
    ELSE IF K.min \in DOMAIN params /\ K.max \in DOMAIN params
    THEN FromRange(Sscanf(params[K.min]), Sscanf(params[K.max]), params, ctx)
    ELSE OneOfOrNothing(params, ctx)

TagParts(parts, ruleSet, ctx) ==
    Dispatch(ruleSet, parseTagParams(parts), TrimSpace(parts[1]), ctx)

generateFromTag(ruleSet, tag, ctx) == TagParts(Split(tag, 44), ruleSet, ctx)

\* the tag's outcome returned as it is, nothing produced included
FromTagOrType_NoFallback(ruleSet, fromTag, field, ctx) == fromTag

\* generateValue once the tag's outcome is known: an error or a value is
\* returned as it is, nothing produced falls back to the type.
FromTagOrType(ruleSet, fromTag, field, ctx) ==
    IF IsErr(fromTag.err) \/ fromTag.val.t # "nil" THEN fromTag
    ELSE generateByType(ruleSet, field.type, ctx)

\* the tag "-" read as no tag at all
generateValue_NoSkip(ruleSet, field, ctx) ==
    IF field.tag # <<>> /\ field.tag # K.skip
    THEN FromTagOrType(ruleSet, generateFromTag(ruleSet, field.tag, ctx), field, ctx)
    ELSE generateByType(ruleSet, field.type, ctx)

\* field: [name, type, tag, settable]
generateValue(ruleSet, field, ctx) ==
    IF field.tag = K.skip THEN Produced(Nil)
    ELSE IF field.tag # <<>>
    THEN FromTagOrType(ruleSet, generateFromTag(ruleSet, field.tag, ctx), field, ctx)
    ELSE generateByType(ruleSet, field.type, ctx)

-----------------------------------------------------------------------------
(* Population *)

Wrapped(e, stage, name) == [e EXCEPT !.stage = stage, !.field = name]

\* Did the override map give the field a SequenceFunc? Then it is called.
CallsWith(calls, override, name, index) ==
    IF name \in DOMAIN override /\ override[name].t = "SequenceFunc"
    THEN Append(calls, <<name, index>>) ELSE calls

\* The loop of FillWithIndex from field i on. st: the struct type's fields,
\* rec: the record so far, calls: the SequenceFunc calls made so far.
RECURSIVE FillFields(_, _, _, _, _, _, _, _)

\* a failed override that leaves the field cleared
Overridden_ClearsField(ruleSet, st, rec, ctx, override, index, i, calls, set) ==
    IF IsErr(set.err)
    THEN [rec |-> [rec EXCEPT ![st[i].name] = Zero(st[i].type)],
          err |-> Wrapped(set.err, "set override", st[i].name),
          calls |-> calls]
    ELSE FillFields(ruleSet, st, [rec EXCEPT ![st[i].name] = set.val],
                    ctx, override, index, i + 1, calls)

\* the field's override resolved to a value: set it and go on, or fail
Overridden(ruleSet, st, rec, ctx, override, index, i, calls, set) ==
    IF IsErr(set.err)
    THEN [rec |-> rec, err |-> Wrapped(set.err, "set override", st[i].name),
          calls |-> calls]
    ELSE FillFields(ruleSet, st, [rec EXCEPT ![st[i].name] = set.val],
                    ctx, override, index, i + 1, calls)

\* the field's value was generated (gen): set it unless it is nil, and go on
Generated(ruleSet, st, rec, ctx, override, index, i, calls, gen) ==
    IF IsErr(gen.err)
    THEN [rec |-> rec, err |-> Wrapped(gen.err, "generate value", st[i].name),
          calls |-> calls]
    ELSE IF gen.val.t = "nil"
    THEN FillFields(ruleSet, st, rec, ctx, override, index, i + 1, calls)
    ELSE IF IsErr(setFieldValue(st[i].type, rec[st[i].name], gen.val).err)
    THEN [rec |-> rec,
          err |-> Wrapped(setFieldValue(st[i].type, rec[st[i].name], gen.val).err,
                          "set value", st[i].name),
          calls |-> calls]
    ELSE FillFields(ruleSet, st,
                    [rec EXCEPT ![st[i].name] =
                        setFieldValue(st[i].type, rec[st[i].name], gen.val).val],
                    ctx, override, index, i + 1, calls)

\* the override looked at only when the field has no tag
WithOverride_TagFirst(ruleSet, st, rec, ctx, override, index, i, calls, resolved) ==
    IF resolved.t # "nil" /\ st[i].tag = <<>>
    THEN Overridden(ruleSet, st, rec, ctx, override, index, i, calls,
                    setFieldValue(st[i].type, rec[st[i].name], resolved))
    ELSE Generated(ruleSet, st, rec, ctx, override, index, i, calls,
                   generateValue(ruleSet, st[i], withFieldName(ctx, st[i].name)))

\* one field with an override entry, resolved
WithOverride(ruleSet, st, rec, ctx, override, index, i, calls, resolved) ==
    IF resolved.t # "nil"
    THEN Overridden(ruleSet, st, rec, ctx, override, index, i, calls,
                    setFieldValue(st[i].type, rec[st[i].name], resolved))
    ELSE Generated(ruleSet, st, rec, ctx, override, index, i, calls,
                   generateValue(ruleSet, st[i], withFieldName(ctx, st[i].name)))

\* the loop with a context that reads the struct as it is when the field's
\* turn comes
FillFields_LiveMap(ruleSet, st, rec, ctx, override, index, i, calls) ==
    IF i > Len(st) THEN [rec |-> rec, err |-> NoErr, calls |-> calls]
    ELSE IF ~st[i].settable
    THEN FillFields(ruleSet, st, rec, ctx, override, index, i + 1, calls)
    ELSE IF st[i].name \in DOMAIN override
    THEN WithOverride(ruleSet, st, rec, ctx, override, index, i,
                      CallsWith(calls, override, st[i].name, index),
                      resolveOverride(override[st[i].name], index))
    ELSE Generated(ruleSet, st, rec, ctx, override, index, i, calls,
                   generateValue(ruleSet, st[i],
                                 withFieldName(withStruct(ctx, st, rec), st[i].name)))

FillFields(ruleSet, st, rec, ctx, override, index, i, calls) ==
    IF i > Len(st) THEN [rec |-> rec, err |-> NoErr, calls |-> calls]
    ELSE IF ~st[i].settable
    THEN FillFields(ruleSet, st, rec, ctx, override, index, i + 1, calls)
    ELSE IF st[i].name \in DOMAIN override
    THEN WithOverride(ruleSet, st, rec, ctx, override, index, i,
                      CallsWith(calls, override, st[i].name, index),
                      resolveOverride(override[st[i].name], index))
    ELSE Generated(ruleSet, st, rec, ctx, override, index, i, calls,
                   generateValue(ruleSet, st[i], withFieldName(ctx, st[i].name)))

\* The argument v of a call as reflection sees it: its kind, and the kind of
\* what it points to ("invalid" behind a nil pointer).
Arg ==
    [ ptrToStruct |-> [kind |-> "ptr", elem |-> "struct"],
      ptrToSlice  |-> [kind |-> "ptr", elem |-> "slice"],
      ptrToInt    |-> [kind |-> "ptr", elem |-> "int"],
      nilPointer  |-> [kind |-> "ptr", elem |-> "invalid"],
      untypedNil  |-> [kind |-> "invalid", elem |-> "none"],
      structValue |-> [kind |-> "struct", elem |-> "none"],
      sliceValue  |-> [kind |-> "slice", elem |-> "none"] ]

\* the test of the argument that looks at v's own kind only
RequiresPointerTo_KindOnly(v, what) ==
    IF v.kind # "ptr" THEN Err("requires a pointer") ELSE NoErr

\* the two tests FillWithIndex and FillSlice begin with
RequiresPointerTo(v, what) ==
    IF v.kind # "ptr" THEN Err("requires a pointer")
    ELSE IF v.elem # what THEN Err("got pointer to another kind")
    ELSE NoErr

\* a call that refuses an override map with a key that is no field of the
\* record
FillWithIndex_UnknownKeyFails(af, v, st, rec, index, overrides) ==
    IF IsErr(RequiresPointerTo(v, "struct"))
    THEN [rec |-> rec, err |-> RequiresPointerTo(v, "struct"), calls |-> <<>>]
    ELSE IF \E k \in 1..Len(overrides) :
                \E key \in DOMAIN overrides[k] : \A i \in 1..Len(st) : st[i].name # key
    THEN [rec |-> rec, err |-> Err("unknown field"), calls |-> <<>>]
    ELSE FillFields(af.rules, st, rec,
                    withStruct(newContext(af.locale, af.seed, index), st, rec),
                    mergeOverrides(withDefaults(af.defaults, overrides)), index, 1, <<>>)

\* FillWithIndex(v, index, overrides...) by the instance af, where v, if it is
\* a pointer to a struct, points to the record rec of struct type st.
FillWithIndex(af, v, st, rec, index, overrides) ==
    IF IsErr(RequiresPointerTo(v, "struct"))
    THEN [rec |-> rec, err |-> RequiresPointerTo(v, "struct"), calls |-> <<>>]
    ELSE
    LET override == mergeOverrides(withDefaults(af.defaults, overrides))
        ctx      == withStruct(newContext(af.locale, af.seed, index), st, rec)
    IN  FillFields(af.rules, st, rec, ctx, override, index, 1, <<>>)

\* a loop that goes on to the next element after one has failed, and reports
\* the last failure
RECURSIVE FillElems_KeepsGoing(_, _, _, _, _, _)
FillElems_KeepsGoing(af, st, elems, overrides, i, calls) ==
    IF i >= Len(elems) THEN [recs |-> elems, err |-> NoErr, calls |-> calls]
    ELSE LET r == FillWithIndex(af, Arg.ptrToStruct, st, elems[i + 1], i, overrides)
             rest == FillElems_KeepsGoing(af, st, [elems EXCEPT ![i + 1] = r.rec],
                                          overrides, i + 1, calls \o r.calls)
         IN  IF IsErr(r.err) /\ ~IsErr(rest.err)
             THEN [rest EXCEPT !.err = [r.err EXCEPT !.elem = i]]
             ELSE rest

\* The loop of FillSlice from position i (0-based) on.
RECURSIVE FillElems(_, _, _, _, _, _)
FillElems(af, st, elems, overrides, i, calls) ==
    IF i >= Len(elems) THEN [recs |-> elems, err |-> NoErr, calls |-> calls]
    ELSE LET r == FillWithIndex(af, Arg.ptrToStruct, st, elems[i + 1], i, overrides)
             filled == [elems EXCEPT ![i + 1] = r.rec]
         IN  IF IsErr(r.err)
             THEN [recs |-> filled, err |-> [r.err EXCEPT !.elem = i],
                   calls |-> calls \o r.calls]
             ELSE FillElems(af, st, filled, overrides, i + 1, calls \o r.calls)

\* FillSlice(v, overrides...), where v, if it is a pointer to a slice, points
\* to the slice elems of records of struct type st.
FillSlice(af, v, st, elems, overrides) ==
    IF IsErr(RequiresPointerTo(v, "slice"))
    THEN [recs |-> elems, err |-> RequiresPointerTo(v, "slice"), calls |-> <<>>]
    ELSE FillElems(af, st, elems, overrides, 0, <<>>)

-----------------------------------------------------------------------------
(* The callers' inputs: struct types, override maps *)

User == <<Field("ID", "int64", Tag.seq), Field("Email", "string", Tag.email),
          Field("Age", "int", Tag.range)>>

StructTypes ==
    { User,
      <<Field("Name", "string", <<>>), Field("Status", "string", Tag.oneof),
        Field("Skip", "string", Tag.skip)>>,
      <<Field("Code", "string", Tag.rule), Field("Small", "int8", <<>>),
        Field("Nick", "string", Tag.norule)>>,
      <<Field("Code", "string", Tag.seq_rule), Field("Name", "string", Tag.oneof_rule),
        Field("Age", "int", Tag.range_rule)>>,
      <<Field("ID", "int64", Tag.same), Field("Name", "string", Tag.inverted_oneof),
        Field("Age", "int", Tag.widest)>>,
      <<Field("Name", "*string", <<>>), Field("Age", "*int", Tag.range),
        Field("Skip", "*string", Tag.skip)>>,
      <<Field("Code", "string", Tag.uuid), Field("Born", "time", <<>>),
        Field("Stamp", "time", Tag.now)>> }

FieldNames(st) == {st[i].name : i \in 1..Len(st)}
FieldOf(st, name) == st[CHOOSE i \in 1..Len(st) : st[i].name = name]

ZeroRec(st) == [n \in FieldNames(st) |-> Zero(FieldOf(st, n).type)]

\* A record whose fields the caller has set before the call.
S_old == <<111, 108, 100>>
RECURSIVE Preset(_)
Preset(type) ==
    CASE type = "string"   -> Str(S_old)
      [] type = "bool"     -> BoolV(TRUE)
      [] type = "*string"  -> PtrTo(type, Str(S_old))
      [] type = "*int"     -> PtrTo(type, IntV(77))
      [] type = "time"     -> TimeV(0, 77)
      [] type \in PtrKinds -> PtrTo(type, Preset(Elem(type)))
      [] type \in SliceKinds -> SliceV(type, <<Preset(Elem(type))>>)
      [] type \in StructKinds ->
            StructV(type, [n \in FieldNames(Nested[type]) |->
                              Preset(FieldOf(Nested[type], n).type)])
      [] OTHER             -> [t |-> type, v |-> 77]
PresetRec(st) == [n \in FieldNames(st) |-> Preset(FieldOf(st, n).type)]

\* The values callers put in override maps.
OverrideValues ==
    { Str(S_adm), IntV(7), Int64V(65), IntV(300), Nil, NilPtr("*string"),
      SeqF(S_usr), SeqIntF(20), TableF(<<Int64V(5), Nil>>) }

DefaultValues == { Str(S_root), Int64V(9) }

\* One-entry maps over the fields of st and one name that is no field.
MapsOf(st, values) ==
    {[k \in {n} |-> v] : n \in FieldNames(st) \cup {"Other"}, v \in values}

Seeds == {12345}

-----------------------------------------------------------------------------
(* The population engine as a state machine *)

New(seed) == [locale |-> "en_US", seed |-> seed,
              rules |-> [isNil |-> FALSE, m |-> DefaultRuleSet],
              defaults |-> EmptyOverride]

NoCall(elems) ==
    [op |-> "none", arg |-> Arg.ptrToStruct, index |-> 0, overrides |-> <<>>, defaults |-> EmptyOverride,
     err |-> NoErr, calls |-> <<>>, before |-> elems]

\* The targets a caller prepares: a slice of zero records (make([]T, n)), or
\* one whose fields it has set.
Targets(st) == { [i \in 1..MaxLen |-> ZeroRec(st)], [i \in 1..MaxLen |-> PresetRec(st)] }

\* the second instance has not been used on the record rec yet
NoTwin(rec) == [done |-> FALSE, rec |-> rec, err |-> NoErr]

FillInit ==
    /\ \E seed \in Seeds : a = New(seed)
    /\ typ = User
    /\ recs = [i \in 1..MaxLen |-> ZeroRec(User)]
    /\ last = NoCall(recs)
    /\ clock = 1
    /\ twin = NoTwin(ZeroRec(User))
    /\ fmaps = <<EmptyOverride>>
    /\ omaps = [p \in 1..MaxMaps |-> EmptyOverride]
    /\ \E seed \in Seeds :
          ctxs = <<[ctx |-> [newContext("en_US", seed, 0) EXCEPT !.fieldMap = 1],
                    structVal |-> 0, from |-> 0, op |-> "newContext"]>>

\* The caller makes a new instance (autofill.New().WithSeed(seed)) and prepares
\* a new slice of records of some struct type. A population call reads nothing
\* but the instance, the target and its arguments, so the model follows one
\* call on each prepared target.
NewTarget ==
    /\ \E seed \in Seeds : a' = New(seed)
    /\ \E st \in StructTypes : \E elems \in Targets(st) :
          /\ typ' = st
          /\ recs' = elems
          /\ last' = NoCall(elems)
          /\ twin' = NoTwin(elems[1])
    /\ clock' = 1
    /\ UNCHANGED <<ctxs, fmaps, omaps, seqVars, concVars>>

\* a.WithRules(ruleSet)
WithRules ==
    /\ last.op = "none"
    /\ \E ruleSet \in RuleSets : a' = [a EXCEPT !.rules = ruleSet]
    /\ UNCHANGED <<typ, recs, last, clock, twin, ctxs, fmaps, omaps, seqVars, concVars>>

WithDefaults ==
    /\ last.op = "none"
    /\ \E d \in {EmptyOverride} \cup MapsOf(typ, DefaultValues) :
          a' = [a EXCEPT !.defaults = d]
    /\ UNCHANGED <<typ, recs, last, clock, twin, ctxs, fmaps, omaps, seqVars, concVars>>

Called(op, v, index, overrides, r, elems) ==
    [op |-> op, arg |-> v, index |-> index, overrides |-> overrides,
     defaults |-> a.defaults, err |-> r.err, calls |-> r.calls, before |-> elems]

\* The arguments callers pass: a pointer to the record or to the slice, and
\* the ones of TestFill_InvalidInput and TestFillSlice_InvalidInput; with the
\* latter, no override maps or one.
FillArgs == {Arg.ptrToStruct, Arg.structValue, Arg.untypedNil, Arg.nilPointer,
             Arg.ptrToInt, Arg.ptrToSlice}
FillSliceArgs == {Arg.ptrToSlice, Arg.sliceValue, Arg.untypedNil, Arg.nilPointer,
                  Arg.ptrToInt, Arg.ptrToStruct}
OverridesWith(v, wanted) ==
    IF v = wanted THEN {<<>>} \cup {<<m>> : m \in MapsOf(typ, OverrideValues)}
    ELSE {<<>>, <<[k \in {typ[1].name} |-> Str(S_adm)]>>}

\* a.Fill(v, overrides...), v being &recs[0] when it is a pointer to a struct
Fill ==
    /\ last.op = "none"
    /\ \E v \in FillArgs : \E overrides \in OverridesWith(v, Arg.ptrToStruct) :
          LET r == FillWithIndex(a, v, typ, recs[1], 0, overrides)
          IN  /\ recs' = [recs EXCEPT ![1] = r.rec]
              /\ last' = Called("Fill", v, 0, overrides, r, recs)
    /\ UNCHANGED <<a, typ, clock, twin, ctxs, fmaps, omaps, seqVars, concVars>>

\* a.FillWithIndex(v, index, overrides...)
FillWithIndexCall ==
    /\ last.op = "none"
    /\ \E index \in 1..MaxIndex :
       \E v \in FillArgs : \E overrides \in OverridesWith(v, Arg.ptrToStruct) :
          LET r == FillWithIndex(a, v, typ, recs[1], index, overrides)
          IN  /\ recs' = [recs EXCEPT ![1] = r.rec]
              /\ last' = Called("FillWithIndex", v, index, overrides, r, recs)
    /\ UNCHANGED <<a, typ, clock, twin, ctxs, fmaps, omaps, seqVars, concVars>>

\* a.FillSlice(v, overrides...), v being &recs when it is a pointer to a slice
FillSliceCall ==
    /\ last.op = "none"
    /\ \E v \in FillSliceArgs : \E overrides \in OverridesWith(v, Arg.ptrToSlice) :
          LET r == FillSlice(a, v, typ, recs, overrides)
          IN  /\ recs' = r.recs
              /\ last' = Called("FillSlice", v, 0, overrides, r, recs)
    /\ UNCHANGED <<a, typ, clock, twin, ctxs, fmaps, omaps, seqVars, concVars>>

\* The determinism test: after a.Fill(&user1) on a zero record, a second instance
\* made the same way (New().WithSeed(seed), the same rules and defaults)
\* populates a zero record of its own with the same overrides, some time later.
TwinPending ==
    /\ last.op = "Fill" /\ last.arg = Arg.ptrToStruct
    /\ ~twin.done /\ last.before[1] = ZeroRec(typ)

\* time passes between the two calls
Tick ==
    /\ TwinPending
    /\ clock < MaxClock
    /\ clock' = clock + 1
    /\ UNCHANGED <<a, typ, recs, last, twin, ctxs, fmaps, omaps, seqVars, concVars>>

\* af2 := New().WithSeed(seed)...; af2.Fill(&user2, overrides...)
TwinFill ==
    /\ TwinPending
    /\ LET af2 == [New(a.seed) EXCEPT !.rules = a.rules, !.defaults = a.defaults]
           r == FillWithIndex(af2, Arg.ptrToStruct, typ, ZeroRec(typ), 0, last.overrides)
       IN  twin' = [done |-> TRUE, rec |-> r.rec, err |-> r.err]
    /\ UNCHANGED <<a, typ, recs, last, clock, ctxs, fmaps, omaps, seqVars, concVars>>

Next ==
    \/ NewTarget \/ WithRules \/ WithDefaults
    \/ Fill \/ FillWithIndexCall \/ FillSliceCall
    \/ Tick \/ TwinFill

-----------------------------------------------------------------------------
(* Several override maps in one call. An Override is a Go map, a reference:    *)
(* omaps[p] is the map at address p, the first MaxMaps of them made by the     *)
(* caller, and a call is given addresses.                                      *)

\* the entries callers put in the maps they combine, over the fields of User
\* and one name that is no field
EntrySets ==
    { EmptyOverride,
      [k \in {"ID"} |-> Int64V(65)],
      [k \in {"ID", "Email"} |-> IF k = "ID" THEN Int64V(5) ELSE Str(S_adm)],
      [k \in {"Email", "Other"} |-> Str(S_usr)],
      [k \in {"Age", "ID"} |-> IF k = "Age" THEN IntV(7) ELSE SeqIntF(20)] }

\* the maps at the addresses passed, in the order passed
MapsAt(heap, ptrs) == [k \in 1..Len(ptrs) |-> heap[ptrs[k]]]

\* the argument lists: up to MaxMaps addresses, the same map twice included
PtrLists == UNION {[1..n -> 1..MaxMaps] : n \in 0..MaxMaps}

\* a merge that collects the entries in the first map passed
mergeOverridesAt_IntoFirst(heap, ptrs) ==
    IF Len(ptrs) = 0 THEN [heap |-> heap, merged |-> 0]
    ELSE [heap |-> [heap EXCEPT ![ptrs[1]] = MergeFrom(MapsAt(heap, ptrs), 1, EmptyOverride)],
          merged |-> ptrs[1]]

\* mergeOverrides on the maps as objects: the heap after the call and the
\* address of the map returned (0: nil). One map is returned as it is, two
\* or more are copied into a map made here.
mergeOverridesAt(heap, ptrs) ==
    IF Len(ptrs) = 0 THEN [heap |-> heap, merged |-> 0]
    ELSE IF Len(ptrs) = 1 THEN [heap |-> heap, merged |-> ptrs[1]]
    ELSE [heap |-> Append(heap, MergeFrom(MapsAt(heap, ptrs), 1, EmptyOverride)),
          merged |-> Len(heap) + 1]

\* the map at an address, nil being a map without entries to its readers
MapAt(heap, p) == IF p = 0 THEN EmptyOverride ELSE heap[p]

\* The caller makes its maps, and a zero User to populate.
NewMaps ==
    /\ \E m \in [1..MaxMaps -> EntrySets] : omaps' = m
    /\ typ' = User
    /\ recs' = [i \in 1..MaxLen |-> ZeroRec(User)]
    /\ last' = NoCall(recs')
    /\ UNCHANGED <<a, clock, twin, ctxs, fmaps, seqVars, concVars>>

\* a.FillWithIndex(&recs[0], index, omaps[ptrs[1]], omaps[ptrs[2]], ...): the
\* body of FillWithIndex with the effective map read where mergeOverrides
\* has left it
FillMerged ==
    /\ last.op = "none"
    /\ \E ptrs \in PtrLists : \E index \in 0..MaxIndex :
          /\ omaps' = mergeOverridesAt(omaps, ptrs).heap
          /\ recs' = [recs EXCEPT ![1] =
                FillFields(a.rules, typ, recs[1],
                           withStruct(newContext(a.locale, a.seed, index), typ, recs[1]),
                           MapAt(omaps', mergeOverridesAt(omaps, ptrs).merged),
                           index, 1, <<>>).rec]
          /\ last' = [op |-> "FillWithIndex", arg |-> Arg.ptrToStruct, index |-> index,
                      overrides |-> MapsAt(omaps, ptrs), defaults |-> EmptyOverride,
                      err |-> FillFields(a.rules, typ, recs[1],
                                  withStruct(newContext(a.locale, a.seed, index), typ, recs[1]),
                                  MapAt(omaps', mergeOverridesAt(omaps, ptrs).merged),
                                  index, 1, <<>>).err,
                      calls |-> <<>>, before |-> recs,
                      merged |-> mergeOverridesAt(omaps, ptrs).merged]
    /\ UNCHANGED <<a, typ, clock, twin, ctxs, fmaps, seqVars, concVars>>

MergeNext == NewMaps \/ FillMerged

-----------------------------------------------------------------------------
(* Records with composite fields (slices, nested structs, pointers to       *)
(* structs), with tags that no branch of the dispatcher answers and with    *)
(* every keyword, populated at any index an int can be, negative ones       *)
(* included.                                                                *)

MaxBelow == 2     \* FillWithIndex is passed the indices -MaxBelow..MaxIndex

CompositeTypes ==
    { <<Field("Name", "string", <<>>), Field("Tags", "[]string", <<>>),
        Field("In", "Inner", <<>>)>>,
      <<Field("Name", "string", <<>>), Field("Ptr", "*Inner", <<>>),
        Field("List", "[]Inner", <<>>)>>,
      <<Field("Name", "string", <<>>), Field("In", "Mistagged", <<>>)>>,
      <<Field("Name", "string", <<>>), Field("Ptr", "*Mistagged", <<>>)>>,
      <<Field("Name", "string", <<>>), Field("List", "[]Mistagged", <<>>)>>,
      <<Field("Name", "string", Tag.unknown), Field("Age", "int", Tag.inverted),
        Field("Count", "int64", Tag.min_only), Field("Flag", "bool", Tag.unknown_kv)>>,
      <<Field("Email", "string", Tag.email), Field("Link", "string", Tag.url),
        Field("Code", "string", Tag.uuid), Field("ID", "int64", Tag.seq),
        Field("Stamp", "time", Tag.now), Field("Nick", "string", Tag.alphanumeric),
        Field("Mail", "string", Tag.rule)>>,
      <<Field("Age", "int", Tag.range), Field("Kind", "string", Tag.oneof),
        Field("Score", "int", <<>>), Field("Born", "time", <<>>)>> }

\* One-entry maps over the fields of st, the fields of the nested structs and
\* one name that is no field of any.
CompositeMaps(st) ==
    {[k \in {n} |-> v] : n \in FieldNames(st) \cup {"ID", "N", "Other"},
                         v \in {Str(S_adm), Int64V(65)}}

\* a caller's RuleSet with a failing rule under the name of every keyword
KeywordRules ==
    [n \in DOMAIN DefaultRuleSet \cup Keywords |->
        IF n \in Keywords THEN [kind |-> "failing"] ELSE DefaultRuleSet[n]]

NewCompositeTarget ==
    /\ \E seed \in Seeds : a' = New(seed)
    /\ \E st \in CompositeTypes : \E elems \in Targets(st) :
          /\ typ' = st
          /\ recs' = elems
          /\ last' = NoCall(elems)
          /\ twin' = NoTwin(elems[1])
    /\ clock' = 1
    /\ UNCHANGED <<ctxs, fmaps, omaps, seqVars, concVars>>

\* a.WithRules(ruleSet) with the caller's rules under the keywords' names
WithKeywordRules ==
    /\ last.op = "none"
    /\ a' = [a EXCEPT !.rules = [isNil |-> FALSE, m |-> KeywordRules]]
    /\ UNCHANGED <<typ, recs, last, clock, twin, ctxs, fmaps, omaps, seqVars, concVars>>

\* a.FillWithIndex(&recs[0], index, overrides...), a.Fill being the call with
\* index 0
FillAtIndex ==
    /\ last.op = "none"
    /\ \E index \in -MaxBelow..MaxIndex :
       \E overrides \in {<<>>} \cup {<<m>> : m \in CompositeMaps(typ)} :
          /\ recs' = [recs EXCEPT ![1] =
                FillWithIndex(a, Arg.ptrToStruct, typ, recs[1], index, overrides).rec]
          /\ last' = Called("FillWithIndex", Arg.ptrToStruct, index, overrides,
                            FillWithIndex(a, Arg.ptrToStruct, typ, recs[1], index, overrides),
                            recs)
    /\ UNCHANGED <<a, typ, clock, twin, ctxs, fmaps, omaps, seqVars, concVars>>

\* a.FillSlice(&recs, overrides...)
FillSliceOf ==
    /\ last.op = "none"
    /\ \E overrides \in {<<>>} \cup {<<m>> : m \in CompositeMaps(typ)} :
          /\ recs' = FillSlice(a, Arg.ptrToSlice, typ, recs, overrides).recs
          /\ last' = Called("FillSlice", Arg.ptrToSlice, 0, overrides,
                            FillSlice(a, Arg.ptrToSlice, typ, recs, overrides), recs)
    /\ UNCHANGED <<a, typ, clock, twin, ctxs, fmaps, omaps, seqVars, concVars>>

DeepNext ==
    \/ NewCompositeTarget \/ WithRules \/ WithKeywordRules
    \/ FillAtIndex \/ FillSliceOf

-----------------------------------------------------------------------------
(* Contexts as the objects they are: *context is a pointer to a struct whose   *)
(* fieldMap is a reference to a map. ctxs[p] is the struct at address p, with  *)
(* the address of its map in fieldMap and the address of the record it was     *)
(* given in structVal; from and op tell which call allocated it.               *)

\* the records withStruct is given a pointer to, by address
StructAt == <<ZeroRec(User), PresetRec(User)>>

\* a derivation that writes the struct it was called on and returns it too
Derived_InPlace(heap, p, newCtx, structVal, op) ==
    Append([heap EXCEPT ![p] = [ctx |-> newCtx, structVal |-> structVal,
                                from |-> heap[p].from, op |-> heap[p].op]],
           [ctx |-> newCtx, structVal |-> structVal, from |-> p, op |-> op])

\* newCtx := *c; ...; return &newCtx: the copy is a new struct
Derived(heap, p, newCtx, structVal, op) ==
    Append(heap, [ctx |-> newCtx, structVal |-> structVal, from |-> p, op |-> op])

\* ctxs[p].withIndex(index)
WithIndexCall ==
    /\ Len(ctxs) < MaxCtxs
    /\ \E p \in 1..Len(ctxs) : \E index \in 1..MaxIndex :
          ctxs' = Derived(ctxs, p, withIndex(ctxs[p].ctx, index), ctxs[p].structVal,
                          "withIndex")
    /\ UNCHANGED <<fmaps, a, typ, recs, last, clock, twin, omaps, seqVars, concVars>>

\* ctxs[p].withFieldName(name)
WithFieldNameCall ==
    /\ Len(ctxs) < MaxCtxs
    /\ \E p \in 1..Len(ctxs) : \E name \in FieldNames(User) :
          ctxs' = Derived(ctxs, p, withFieldName(ctxs[p].ctx, name), ctxs[p].structVal,
                          "withFieldName")
    /\ UNCHANGED <<fmaps, a, typ, recs, last, clock, twin, omaps, seqVars, concVars>>

\* ctxs[p].withStruct(&StructAt[v]): the new context has a new map
WithStructCall ==
    /\ Len(ctxs) < MaxCtxs
    /\ \E p \in 1..Len(ctxs) : \E v \in 1..Len(StructAt) :
          /\ fmaps' = Append(fmaps, withStruct(ctxs[p].ctx, User, StructAt[v]).fieldMap)
          /\ ctxs' = Derived(ctxs, p,
                             [withStruct(ctxs[p].ctx, User, StructAt[v])
                                EXCEPT !.fieldMap = Len(fmaps) + 1],
                             v, "withStruct")
    /\ UNCHANGED <<a, typ, recs, last, clock, twin, omaps, seqVars, concVars>>

CtxNext == WithIndexCall \/ WithFieldNameCall \/ WithStructCall

-----------------------------------------------------------------------------
(* What the claims speak of: the last call's arguments and its outcome *)

Happened == last.op # "none"
Succeeded == Happened /\ ~IsErr(last.err)

\* the elements (1-based) the last call populated, and the index each was given
Touched == IF last.op = "FillSlice" THEN 1..Len(recs)
           ELSE IF last.op = "none" THEN {} ELSE {1}
IndexOfElem(e) == IF last.op = "FillSlice" THEN e - 1 ELSE last.index

\* the call-site entry of a field: that of the last map naming it
CallSiteHas(n) == \E k \in 1..Len(last.overrides) : n \in DOMAIN last.overrides[k]
CallSiteEntry(n) ==
    LET k == CHOOSE j \in 1..Len(last.overrides) :
                /\ n \in DOMAIN last.overrides[j]
                /\ \A l \in (j + 1)..Len(last.overrides) : n \notin DOMAIN last.overrides[l]
    IN  last.overrides[k][n]
DefaultHas(n) == n \in DOMAIN last.defaults

IsLiteral(v) == v.t \notin {"nil", "SequenceFunc"}

\* A value the field's type holds unchanged: of the field's type, or an integer
\* within the range of the field's integer type.
TypeCompatible(v, type) ==
    \/ v.t = type
    \/ /\ v.t \in IntKinds /\ type \in IntKinds
       /\ (type = "int8" => v.v >= -128 /\ v.v <= 127)

\* The field holds the value v (as a number, a string or a bool of its own type).
Holds(fieldVal, v) == fieldVal.v = v.v

\* C1: a settable top-level field that the call's override map gives a literal,
\* non-nil value of a compatible type holds that literal after a successful
\* call, whatever its tag or type.
C1_LiteralOverrideWins ==
    Succeeded =>
        \A e \in Touched : \A n \in FieldNames(typ) :
            (/\ CallSiteHas(n)
             /\ IsLiteral(CallSiteEntry(n))
             /\ TypeCompatible(CallSiteEntry(n), FieldOf(typ, n).type))
            => Holds(recs[e][n], CallSiteEntry(n))

\* C1's case: a field tagged "-" or rule=<name>, overridden by a literal, in a
\* call that succeeded and changed the field.
C1_Witness ==
    /\ Succeeded
    /\ \E n \in FieldNames(typ) :
        /\ FieldOf(typ, n).tag \in {Tag.skip, Tag.norule}
        /\ CallSiteHas(n) /\ CallSiteEntry(n) = Str(S_adm)
        /\ recs[1][n] = Str(S_adm)
        /\ last.before[1][n] # Str(S_adm)

\* C2: after a successful FillSlice with a SequenceFunc f for a field, f was
\* called once per element with the positions 0, 1, ..., N-1 in this order, and
\* element i's field holds f(i) (where f(i) is a value the field's type holds).
C2_SequencePerElement ==
    (Succeeded /\ last.op = "FillSlice") =>
        \A n \in FieldNames(typ) :
            (CallSiteHas(n) /\ CallSiteEntry(n).t = "SequenceFunc") =>
                /\ SelectSeq(last.calls, LAMBDA c : c[1] = n)
                      = [i \in 1..Len(recs) |-> <<n, i - 1>>]
                /\ \A i \in 0..(Len(recs) - 1) :
                      (/\ ApplySeq(CallSiteEntry(n).v, i).t # "nil"
                       /\ TypeCompatible(ApplySeq(CallSiteEntry(n).v, i), FieldOf(typ, n).type))
                      => Holds(recs[i + 1][n], ApplySeq(CallSiteEntry(n).v, i))

\* C2's case: Seq("usr%d") on a string field of a slice of at least two
\* elements: the elements hold usr0 and usr1.
C2_Witness ==
    /\ Succeeded /\ last.op = "FillSlice" /\ Len(recs) >= 2
    /\ \E n \in FieldNames(typ) :
        /\ CallSiteHas(n) /\ CallSiteEntry(n) = SeqF(S_usr)
        /\ recs[1][n] = Str(S_usr \o <<48>>)
        /\ recs[2][n] = Str(S_usr \o <<49>>)

\* the entry in force for a field: the call's own, else the instance's default
EffectiveHas(n) == CallSiteHas(n) \/ DefaultHas(n)
EffectiveEntry(n) == IF CallSiteHas(n) THEN CallSiteEntry(n) ELSE last.defaults[n]

\* the elements the last call reached: FillSlice stops at the element that failed
Reached == IF last.op = "FillSlice" /\ IsErr(last.err)
           THEN 1..(last.err.elem + 1) ELSE Touched

\* the error FillWithIndex returned for element e
ErrOfElem(e) ==
    IF IsErr(last.err) /\ (last.op # "FillSlice" \/ last.err.elem = e - 1)
    THEN [last.err EXCEPT !.elem = -1] ELSE NoErr

\* the field's entry resolves to nil for element e
NilResolved(n, e) ==
    /\ EffectiveHas(n)
    /\ resolveOverride(EffectiveEntry(n), IndexOfElem(e)).t = "nil"

\* C3: a field whose override resolves to nil is not
\* assigned at all: it keeps the value it had before the call, and no error
\* is returned for it.
C3_NilOverrideKeepsField ==
    Happened =>
        \A e \in Reached : \A n \in FieldNames(typ) :
            NilResolved(n, e) =>
                /\ recs[e][n] = last.before[e][n]
                /\ ErrOfElem(e).field # n

\* C4: on an instance with defaults, a field with a default and no call-site
\* entry holds the default after a successful call; a field with a default
\* and a call-site entry holds the call-site value (values the field's type
\* holds).
C4_DefaultsUnlessOverridden ==
    Succeeded =>
        \A e \in Touched : \A n \in FieldNames(typ) :
            (DefaultHas(n) /\ IsLiteral(last.defaults[n])) =>
                /\ (/\ ~CallSiteHas(n)
                    /\ TypeCompatible(last.defaults[n], FieldOf(typ, n).type))
                   => Holds(recs[e][n], last.defaults[n])
                /\ (/\ CallSiteHas(n) /\ IsLiteral(CallSiteEntry(n))
                    /\ TypeCompatible(CallSiteEntry(n), FieldOf(typ, n).type))
                   => Holds(recs[e][n], CallSiteEntry(n))

\* C4's case: the default "root" and the call-site value "adm" for the same
\* field: the field holds "adm".
C4_Witness ==
    /\ Succeeded
    /\ \E n \in FieldNames(typ) :
        /\ DefaultHas(n) /\ last.defaults[n] = Str(S_root)
        /\ CallSiteHas(n) /\ CallSiteEntry(n) = Str(S_adm)
        /\ \A e \in Touched : recs[e][n] = Str(S_adm)

\* C5: an override value of an integer type (int64, say) for a string field
\* makes the call fail (call-site override, slice population or instance
\* default alike); an int value for an int64 field is stored as the same
\* number.
C5_IntToStringRejected ==
    Happened =>
        \A e \in Reached : \A n \in FieldNames(typ) :
            EffectiveHas(n) =>
                /\ (/\ resolveOverride(EffectiveEntry(n), IndexOfElem(e)).t \in IntKinds
                    /\ FieldOf(typ, n).type = "string")
                   => IsErr(last.err)
                /\ (/\ resolveOverride(EffectiveEntry(n), IndexOfElem(e)).t = "int"
                    /\ FieldOf(typ, n).type = "int64"
                    /\ ~IsErr(ErrOfElem(e)))
                   => Holds(recs[e][n], resolveOverride(EffectiveEntry(n), IndexOfElem(e)))

\* C11: a field tagged exactly "-" that has no override entry (at the call
\* site or in the defaults) holds after the call the value it had before it,
\* though its type has a generator, and the call's error, if any, is not about
\* this field.
C11_SkipTagLeavesField ==
    Happened =>
        \A e \in Touched : \A n \in FieldNames(typ) :
            (FieldOf(typ, n).tag = Tag.skip /\ ~EffectiveHas(n)) =>
                /\ recs[e][n] = last.before[e][n]
                /\ IsErr(last.err) => last.err.field # n

\* C11's case: a call that populated the other fields of a record whose "-"
\* field the caller had set, and left that one as it was.
C11_Witness ==
    /\ Succeeded
    /\ \E n \in FieldNames(typ) :
        /\ FieldOf(typ, n).tag = Tag.skip /\ ~EffectiveHas(n)
        /\ recs[1][n] = Str(S_old)
        /\ ~IsErr(generateByType(a.rules, FieldOf(typ, n).type,
                                 newContext(a.locale, a.seed, last.index)).err)
        /\ \E o \in FieldNames(typ) : recs[1][o] # last.before[1][o]

\* The tokens of field n's tag, and the context its generation is given in
\* element e of the last call.
TagParams(n) == parseTagParams(Split(FieldOf(typ, n).tag, 44))
MainTag(n) == TrimSpace(Split(FieldOf(typ, n).tag, 44)[1])
HasRuleToken(n) == FieldOf(typ, n).tag # Tag.skip /\ K.rule \in DOMAIN TagParams(n)
FieldCtx(n, e) ==
    withFieldName(withStruct(newContext(a.locale, a.seed, IndexOfElem(e)),
                             typ, last.before[e]), n)

\* the position of a field in the struct type, and whether the loop of the last
\* call came to field n of element e (it stops at the field that fails)
FieldPos(n) == CHOOSE i \in 1..Len(typ) : typ[i].name = n
Processed(n, e) ==
    /\ e \in Reached
    /\ IsErr(ErrOfElem(e)) =>
          /\ ErrOfElem(e).field \in FieldNames(typ)
          /\ FieldPos(n) <= FieldPos(ErrOfElem(e).field)

\* what the named rule's Generate returns for field n of element e, and what
\* the other tokens of the tag would give without the rule= token
RuleOutcome(n, e) == RuleGenerate(a.rules.m[TagParams(n)[K.rule]], FieldCtx(n, e))
TokensAlone(n, e) ==
    Dispatch(a.rules, [k \in DOMAIN TagParams(n) \ {K.rule} |-> TagParams(n)[k]],
             MainTag(n), FieldCtx(n, e))
HoldsTokens(n, e) ==
    /\ ~IsErr(TokensAlone(n, e).err) /\ TokensAlone(n, e).val.t # "nil"
    /\ ConvertibleTo(TokensAlone(n, e).val.t, FieldOf(typ, n).type)
    /\ recs[e][n] = Convert(TokensAlone(n, e).val, FieldOf(typ, n).type)

\* C12: a field whose tag has a rule=<name> token (and that has no override
\* entry) is generated by the rule of that name in the instance's RuleSet and
\* by nothing else of the tag: a rule that is not registered fails the call with
\* "rule not found" for this field, the rule's error fails the call for this
\* field, the rule's value is what the field holds, and in no case does the
\* field hold what the tag's keyword, min/max or oneof token would give.
C12_RuleTokenExclusive ==
    Happened =>
        \A e \in Touched : \A n \in FieldNames(typ) :
            (HasRuleToken(n) /\ ~EffectiveHas(n) /\ Processed(n, e)) =>
                IF ~HasRule(a.rules, TagParams(n)[K.rule])
                THEN /\ ErrOfElem(e).msg = "rule not found" /\ ErrOfElem(e).field = n
                     /\ recs[e][n] = last.before[e][n]
                ELSE IF IsErr(RuleOutcome(n, e).err)
                THEN /\ ErrOfElem(e).msg = RuleOutcome(n, e).err.msg
                     /\ ErrOfElem(e).field = n
                     /\ recs[e][n] = last.before[e][n]
                ELSE IF RuleOutcome(n, e).val.t = FieldOf(typ, n).type
                THEN recs[e][n] = RuleOutcome(n, e).val
                ELSE ~HoldsTokens(n, e)

\* C12's case: a call on a record with the tags "seq,rule=email" and
\* "min=18,max=19,rule=name": the first field holds the email rule's value and
\* not the position, and the call failed at the second, whose rule is missing
\* or fails.
C12_Witness ==
    /\ Happened /\ IsErr(last.err)
    /\ \E n \in FieldNames(typ) :
        /\ FieldOf(typ, n).tag = Tag.seq_rule /\ ~EffectiveHas(n)
        /\ recs[1][n] = RuleOutcome(n, 1).val
        /\ TokensAlone(n, 1).val = Int64V(IndexOfElem(1))
        /\ recs[1][n] # last.before[1][n]
    /\ \E n \in FieldNames(typ) :
        /\ FieldOf(typ, n).tag = Tag.range_rule /\ ~EffectiveHas(n)
        /\ ErrOfElem(1).field = n
        /\ TokensAlone(n, 1).val.t = "int"

\* a field whose tag is a range and nothing else: min=N,max=M with N <= M
IsRange(n) ==
    /\ FieldOf(typ, n).type \in IntKinds
    /\ DOMAIN TagParams(n) = {K.min, K.max} /\ Len(Split(FieldOf(typ, n).tag, 44)) = 2
RangeMin(n) == Sscanf(TagParams(n)[K.min])
RangeMax(n) == Sscanf(TagParams(n)[K.max])

\* C13: the field with the tag min=N,max=M, N <= M, holds
\* N + (i mod (M-N+1)) after the call with index i >= 0: a number of [N, M], and
\* N itself when N = M.
C13_RangeIsIndexModulo ==
    Happened =>
        \A e \in Touched : \A n \in FieldNames(typ) :
            (/\ IsRange(n) /\ RangeMin(n) <= RangeMax(n)
             /\ ~EffectiveHas(n) /\ Processed(n, e)) =>
                /\ ErrOfElem(e).field # n
                /\ recs[e][n].v = RangeMin(n)
                        + (IndexOfElem(e) % (RangeMax(n) - RangeMin(n) + 1))
                /\ recs[e][n].v >= RangeMin(n) /\ recs[e][n].v <= RangeMax(n)
                /\ RangeMin(n) = RangeMax(n) => recs[e][n].v = RangeMin(n)

\* a string field whose tag is answered by its oneof token: no rule= token, a
\* first token that is neither a keyword nor a registered rule's name, and no
\* min and max with min <= max
IsOneOf(n) ==
    /\ FieldOf(typ, n).tag # Tag.skip /\ FieldOf(typ, n).type = "string"
    /\ K.oneof \in DOMAIN TagParams(n) /\ K.rule \notin DOMAIN TagParams(n)
    /\ Contains(MainTag(n), 61) \/ (MainTag(n) \notin Keywords /\ ~HasRule(a.rules, MainTag(n)))
    /\ ~(/\ K.min \in DOMAIN TagParams(n) /\ K.max \in DOMAIN TagParams(n)
          /\ Sscanf(TagParams(n)[K.min]) <= Sscanf(TagParams(n)[K.max]))
Options(n) == Split(TagParams(n)[K.oneof], 124)

\* C14: the field with the tag oneof=a|b|... holds, after the call with index
\* i >= 0, the option at position i mod (number of options): always one of the
\* options listed.
C14_OneOfIsIndexModulo ==
    Happened =>
        \A e \in Touched : \A n \in FieldNames(typ) :
            (IsOneOf(n) /\ ~EffectiveHas(n) /\ Processed(n, e) /\ IndexOfElem(e) >= 0) =>
                /\ ErrOfElem(e).field # n
                /\ recs[e][n] = Str(Options(n)[(IndexOfElem(e) % Len(Options(n))) + 1])
                /\ \E k \in 1..Len(Options(n)) : recs[e][n].v = Options(n)[k]

\* C14's case: the index 2 given to a field with the two options a|b, which
\* comes round to the first option again.
C14_Witness ==
    /\ Succeeded /\ last.op = "FillWithIndex" /\ last.index = 2
    /\ \E n \in FieldNames(typ) :
        /\ IsOneOf(n) /\ ~EffectiveHas(n) /\ Len(Options(n)) = 2
        /\ recs[1][n] = Str(Options(n)[1])
        /\ last.before[1][n] = Str(S_old)

\* the caller's entry for field n says nil for element e: an untyped nil or a
\* nil pointer
OverriddenToNil(n, e) ==
    /\ EffectiveHas(n)
    /\ \/ resolveOverride(EffectiveEntry(n), IndexOfElem(e)).t = "nil"
       \/ /\ resolveOverride(EffectiveEntry(n), IndexOfElem(e)).t \in PtrKinds
          /\ resolveOverride(EffectiveEntry(n), IndexOfElem(e)).v = Nil

\* what a field of the pointee's type with the same tag is given in element e
PointeeOutcome(n, e) ==
    generateValue(a.rules, [FieldOf(typ, n) EXCEPT !.type = Elem(FieldOf(typ, n).type)],
                  FieldCtx(n, e))

\* C15: after a successful call a pointer field whose tag is not "-" is not
\* nil, unless the caller's entry for it said nil; without an entry it points
\* at the value a field of the pointee's type would have been given.
C15_PointersNeverNil ==
    Succeeded =>
        \A e \in Touched : \A n \in FieldNames(typ) :
            (/\ FieldOf(typ, n).type \in PtrKinds
             /\ FieldOf(typ, n).tag # Tag.skip
             /\ ~OverriddenToNil(n, e)) =>
                /\ recs[e][n].v # Nil
                /\ recs[e][n].v.t = Elem(FieldOf(typ, n).type)
                /\ ~EffectiveHas(n) =>
                      recs[e][n].v = Convert(PointeeOutcome(n, e).val,
                                             Elem(FieldOf(typ, n).type))

\* C15's case: Fill on a zero record with pointer fields and no overrides: the
\* *string field points at a generated word and the *int field tagged
\* min=18,max=19 at a number of the range.
C15_Witness ==
    /\ Succeeded /\ last.overrides = <<>> /\ last.defaults = EmptyOverride
    /\ \E n \in FieldNames(typ) :
        /\ FieldOf(typ, n).type = "*string" /\ FieldOf(typ, n).tag = <<>>
        /\ last.before[1][n] = NilPtr("*string")
        /\ recs[1][n] = PtrTo("*string", Str(Lit.hello))
    /\ \E n \in FieldNames(typ) :
        /\ FieldOf(typ, n).type = "*int" /\ FieldOf(typ, n).tag = Tag.range
        /\ recs[1][n] = PtrTo("*int", IntV(18))

\* C16: two instances with the same seed, rules and defaults that populate
\* zero records of the same struct type with Fill (index 0) and the same
\* overrides leave the same value in every field.
C16_SameSeedSameValues ==
    twin.done => /\ twin.rec = recs[1]
                 /\ twin.err = last.err

\* the argument of the last call is not what the function called requires
InvalidArg ==
    \/ last.op \in {"Fill", "FillWithIndex"} /\ last.arg # Arg.ptrToStruct
    \/ last.op = "FillSlice" /\ last.arg # Arg.ptrToSlice

\* C17: Fill (and FillWithIndex) given anything but a non-nil pointer to a
\* struct, and FillSlice given anything but a non-nil pointer to a slice, return
\* an error: no panic, no field assigned, no SequenceFunc called.
C17_InvalidInputIsAnError ==
    InvalidArg =>
        /\ IsErr(last.err) /\ last.err.msg # "panic"
        /\ recs = last.before
        /\ last.calls = <<>>

\* C17's case: Fill given a nil pointer, with an override map that names a
\* field of the record.
C17_Witness ==
    /\ last.op = "Fill" /\ last.arg = Arg.nilPointer
    /\ last.overrides # <<>>
    /\ IsErr(last.err)

\* what FillWithIndex(&elems[e-1], e-1, overrides...) does to element e as it
\* was before the last call
ElemResult(e) ==
    FillWithIndex(a, Arg.ptrToStruct, typ, last.before[e], e - 1, last.overrides)

\* C18: FillSlice populates the elements in the order of their positions,
\* each with its position as index (a field tagged seq holds the position);
\* it stops at the first element whose population fails, leaves the later
\* elements as they were and returns that element's error with its position.
C18_FillSliceInOrder ==
    (last.op = "FillSlice" /\ last.arg = Arg.ptrToSlice) =>
        /\ \A e \in Reached : recs[e] = ElemResult(e).rec
        /\ \A e \in (1..Len(recs)) \ Reached : recs[e] = last.before[e]
        /\ \A e \in Reached : \A n \in FieldNames(typ) :
              (FieldOf(typ, n).tag = Tag.seq /\ ~EffectiveHas(n) /\ Processed(n, e))
              => recs[e][n].v = e - 1
        /\ \A i, j \in 1..Len(last.calls) : i < j => last.calls[i][2] <= last.calls[j][2]
        /\ IF IsErr(last.err)
           THEN /\ last.err.elem \in 0..(Len(recs) - 1)
                /\ last.err = [ElemResult(last.err.elem + 1).err EXCEPT !.elem = last.err.elem]
                /\ \A e \in 1..last.err.elem : ~IsErr(ElemResult(e).err)
           ELSE \A e \in 1..Len(recs) : ~IsErr(ElemResult(e).err)

\* C18's case: a FillSlice that populated element 0, failed at element 1 and
\* says so.
C18_Witness ==
    /\ last.op = "FillSlice" /\ last.arg = Arg.ptrToSlice
    /\ IsErr(last.err) /\ last.err.elem = 1
    /\ recs[1] # last.before[1]
    /\ ~IsErr(ElemResult(1).err)

\* the rule a rule= token of field n names, when it is one that reads a field
ReadsField(n) ==
    /\ HasRuleToken(n) /\ HasRule(a.rules, TagParams(n)[K.rule])
    /\ a.rules.m[TagParams(n)[K.rule]].kind = "sibling"
FieldRead(n) == a.rules.m[TagParams(n)[K.rule]].of
ExportedField(n) == n \in FieldNames(typ) /\ FieldOf(typ, n).settable

\* C20: GetField as the rule of a field sees it gives the value the named field
\* had when the population of this record began, whatever the call has assigned
\* to it since, and reports not-found for a name that is no field: a field
\* generated by a rule that hands on GetField's value holds the named field's
\* value on entry, and the call fails at a field whose rule asks for a name the
\* struct has not.
C20_GetFieldIsSnapshot ==
    Happened =>
        \A e \in Touched : \A n \in FieldNames(typ) :
            (ReadsField(n) /\ ~EffectiveHas(n) /\ Processed(n, e)) =>
                IF FieldRead(n) \notin FieldNames(typ)
                THEN /\ ErrOfElem(e).msg = "no such field" /\ ErrOfElem(e).field = n
                     /\ recs[e][n] = last.before[e][n]
                ELSE (ExportedField(FieldRead(n))
                      /\ FieldOf(typ, FieldRead(n)).type = FieldOf(typ, n).type) =>
                        /\ recs[e][n] = last.before[e][FieldRead(n)]
                        /\ IsErr(ErrOfElem(e)) => ErrOfElem(e).field # n

\* C20's case: Nick, generated after Code by a rule that reads Code, holds what
\* Code held on entry and not the email the call has put there.
C20_Witness ==
    /\ Succeeded /\ last.op = "FillSlice"
    /\ {"Nick", "Code"} \subseteq FieldNames(typ)
    /\ \A e \in Touched :
          /\ ReadsField("Nick") /\ FieldRead("Nick") = "Code"
          /\ ~EffectiveHas("Nick") /\ ~EffectiveHas("Code")
          /\ recs[e].Nick = last.before[e].Code
          /\ recs[e].Code # last.before[e].Code
          /\ recs[e].Nick # recs[e].Code

\* what the context at address p reports: Locale(), Seed(), Index(),
\* FieldName(), GetStruct() and GetField of every name
Reports(heap, mapHeap, p) ==
    [locale |-> heap[p].ctx.locale, seed |-> heap[p].ctx.seed,
     index |-> heap[p].ctx.index, fieldName |-> heap[p].ctx.fieldName,
     structVal |-> heap[p].structVal, fields |-> mapHeap[heap[p].ctx.fieldMap]]

\* the context at address p is its parent's but for the component its
\* derivation sets
DiffersOnlyWhereSet(p) ==
    CASE ctxs[p].op = "withIndex" ->
            Reports(ctxs, fmaps, p) =
                [Reports(ctxs, fmaps, ctxs[p].from) EXCEPT !.index = ctxs[p].ctx.index]
      [] ctxs[p].op = "withFieldName" ->
            Reports(ctxs, fmaps, p) =
                [Reports(ctxs, fmaps, ctxs[p].from) EXCEPT !.fieldName = ctxs[p].ctx.fieldName]
      [] ctxs[p].op = "withStruct" ->
            /\ Reports(ctxs, fmaps, p) =
                  [Reports(ctxs, fmaps, ctxs[p].from)
                     EXCEPT !.structVal = ctxs[p].structVal,
                            !.fields = fmaps[ctxs[p].ctx.fieldMap]]
            /\ ctxs[p].structVal \in 1..Len(StructAt)
            /\ fmaps[ctxs[p].ctx.fieldMap] = StructAt[ctxs[p].structVal]
      [] OTHER -> ctxs[p].from = 0

\* C19: withIndex, withFieldName and withStruct return a new context and leave
\* the one they are called on as it was: no step changes what a context that
\* exists reports, and each derived context reports what its parent does but
\* for the component its derivation sets.
C19_DerivationsDoNotMutate ==
    /\ [](\A p \in 1..Len(ctxs) : DiffersOnlyWhereSet(p))
    /\ [][\A p \in 1..Len(ctxs) :
            /\ Len(ctxs') >= Len(ctxs)
            /\ Reports(ctxs', fmaps', p) = Reports(ctxs, fmaps, p)]_vars

\* C19's case: a chain newContext -> withIndex -> withStruct -> withFieldName,
\* with the first context still at index 0, without struct and field name.
C19_Witness ==
    /\ Len(ctxs) = 4
    /\ ctxs[2].op = "withIndex" /\ ctxs[2].from = 1
    /\ ctxs[3].op = "withStruct" /\ ctxs[3].from = 2
    /\ ctxs[4].op = "withFieldName" /\ ctxs[4].from = 3
    /\ Reports(ctxs, fmaps, 1) =
          [locale |-> "en_US", seed |-> ctxs[4].ctx.seed, index |-> 0, fieldName |-> "",
           structVal |-> 0, fields |-> EmptyOverride]
    /\ Reports(ctxs, fmaps, 4).index # 0
    /\ Reports(ctxs, fmaps, 4).fields = PresetRec(User)

\* the rule a rule= token of field n names is registered and its Generate
\* returns a nil value and no error for element e
RuleGivesNil(n, e) ==
    /\ HasRuleToken(n) /\ HasRule(a.rules, TagParams(n)[K.rule])
    /\ ~IsErr(RuleOutcome(n, e).err) /\ RuleOutcome(n, e).val.t = "nil"

\* C22: when the outcome of the generation for a field is a nil value without
\* error (a registered rule whose Generate returns (nil, nil)), nothing is
\* assigned to the field: it holds after the call what it held before, and no
\* error names it.
C22_NilOutcomeLeavesField ==
    Happened =>
        \A e \in Touched : \A n \in FieldNames(typ) :
            (RuleGivesNil(n, e) /\ ~EffectiveHas(n) /\ Processed(n, e)) =>
                /\ recs[e][n] = last.before[e][n]
                /\ IsErr(ErrOfElem(e)) => ErrOfElem(e).field # n

\* C21: with several override maps in one call the effective entry of a name
\* is the entry of the last map, left to right, that has the name; a name that
\* no map has gets no entry; a field whose effective entry is a value of its
\* type holds it after the call; and the call writes none of the caller's maps.
C21_LastMapWins ==
    /\ [](Happened =>
            /\ \A n \in FieldNames(typ) \cup {"Other"} :
                  IF CallSiteHas(n)
                  THEN /\ n \in DOMAIN MapAt(omaps, last.merged)
                       /\ MapAt(omaps, last.merged)[n] = CallSiteEntry(n)
                  ELSE n \notin DOMAIN MapAt(omaps, last.merged)
            /\ \A n \in FieldNames(typ) :
                  (/\ CallSiteHas(n) /\ IsLiteral(CallSiteEntry(n))
                   /\ TypeCompatible(CallSiteEntry(n), FieldOf(typ, n).type)
                   /\ ~IsErr(last.err))
                      => Holds(recs[1][n], CallSiteEntry(n)))
    /\ [][last'.op # "none" =>
            \A p \in 1..MaxMaps : omaps'[p] = omaps[p]]_vars

\* C21's case: three maps, the first and the third with an entry for ID, the
\* second alone with one for Email: ID holds the third's, Email the second's,
\* and the maps are as the caller made them.
C21_Witness ==
    /\ Succeeded /\ Len(last.overrides) = 3
    /\ DOMAIN last.overrides[1] = {"ID"}
    /\ DOMAIN last.overrides[2] = {"Email", "Other"}
    /\ DOMAIN last.overrides[3] = {"Age", "ID"}
    /\ last.overrides[1]["ID"] = Int64V(65)
    /\ recs[1].ID = Int64V(20 + last.index)
    /\ recs[1].Email = last.overrides[2]["Email"]
    /\ recs[1].Age = IntV(7)
    /\ \A k \in 1..3 : omaps[k] = last.overrides[k]
    /\ Len(omaps) = MaxMaps + 1

\* the population of element e failed at one of its fields
FailedAtField(e) ==
    /\ e \in Reached /\ IsErr(ErrOfElem(e))
    /\ ErrOfElem(e).field \in FieldNames(typ)

\* C28: when the population of a record fails at a field, that field and every
\* field declared after it hold what they held before the call; and when
\* FillSlice fails at an element, every element after it is as it was before
\* the call.
C28_FailureLeavesTheRest ==
    Happened =>
        /\ \A e \in Touched : FailedAtField(e) =>
              \A n \in FieldNames(typ) :
                  FieldPos(n) >= FieldPos(ErrOfElem(e).field)
                      => recs[e][n] = last.before[e][n]
        /\ (last.op = "FillSlice" /\ IsErr(last.err) /\ last.arg = Arg.ptrToSlice) =>
              \A e \in 1..Len(recs) :
                  e > last.err.elem + 1 => recs[e] = last.before[e]

\* C28's case: FillSlice on records the caller had set, failing at the second
\* field of the first element: the first field of that element was assigned,
\* the failing field and the one after it were not, nor the second element.
C28_Witness ==
    /\ last.op = "FillSlice" /\ FailedAtField(1)
    /\ FieldPos(ErrOfElem(1).field) = 2
    /\ recs[1][typ[1].name] # last.before[1][typ[1].name]
    /\ last.before[1] = PresetRec(typ)
    /\ recs[1][typ[2].name] = Preset(typ[2].type)
    /\ recs[1][typ[3].name] = Preset(typ[3].type)
    /\ recs[2] = PresetRec(typ)

\* No branch of the dispatcher answers the tag of field n: it is a directive
\* other than "-" without rule= and oneof= tokens, whose first token, if it is
\* bare, is no keyword and no name in the instance's RuleSet, and whose min and
\* max tokens, if it has both, are inverted.
NoBranchAnswers(n) ==
    /\ FieldOf(typ, n).tag # <<>> /\ FieldOf(typ, n).tag # Tag.skip
    /\ K.rule \notin DOMAIN TagParams(n) /\ K.oneof \notin DOMAIN TagParams(n)
    /\ ~Contains(MainTag(n), 61) =>
          MainTag(n) \notin Keywords /\ ~HasRule(a.rules, MainTag(n))
    /\ (K.min \in DOMAIN TagParams(n) /\ K.max \in DOMAIN TagParams(n)) =>
          Sscanf(TagParams(n)[K.min]) > Sscanf(TagParams(n)[K.max])

\* what the generator of the field's type gives for element e
TypeDefault(n, e) == generateByType(a.rules, FieldOf(typ, n).type, FieldCtx(n, e))

\* C23: a field with a directive that no branch of the dispatcher answers (a
\* bare token that is no keyword and no registered rule, min > max, min
\* without max, unknown key=value tokens) is given the value the generator of
\* its type gives at the element's index, and the call raises no error for
\* it. The index is a position, zero or more.
C23_FallsBackToTypeDefault ==
    Happened =>
        \A e \in Touched : \A n \in FieldNames(typ) :
            (/\ NoBranchAnswers(n) /\ ~EffectiveHas(n) /\ Processed(n, e)
             /\ IndexOfElem(e) >= 0) =>
                /\ ~IsErr(TypeDefault(n, e).err)
                /\ recs[e][n] = Convert(TypeDefault(n, e).val, FieldOf(typ, n).type)
                /\ IsErr(ErrOfElem(e)) => ErrOfElem(e).field # n

\* C23's case: a record the caller had set, with the tags "foo", "min=9,max=1",
\* "min=5" and "foo=bar", populated at index 1: the fields hold "world", 101,
\* 101 and false.
C23_Witness ==
    /\ Succeeded /\ last.index = 1 /\ last.overrides = <<>>
    /\ last.before[1] = PresetRec(typ)
    /\ \E w, x, y, z \in FieldNames(typ) :
          /\ FieldOf(typ, w).tag = Tag.unknown /\ recs[1][w] = Str(Lit.world)
          /\ FieldOf(typ, x).tag = Tag.inverted /\ recs[1][x] = IntV(101)
          /\ FieldOf(typ, y).tag = Tag.min_only /\ recs[1][y] = Int64V(101)
          /\ FieldOf(typ, z).tag = Tag.unknown_kv /\ recs[1][z] = BoolV(FALSE)
          /\ \A n \in {w, x, y, z} : NoBranchAnswers(n)

\* the string the string generator has for an index, and the struct Inner
\* whose fields are generated with an index: Name by its type, ID by "seq",
\* Code by "uuid" (seed + index)
WordAt(index) ==
    <<Lit.hello, Lit.world, Lit.test, Lit.sample, Lit.data, Lit.value, Lit.string,
      Lit.text>>[(index % 8) + 1]
InnerAt(index) ==
    StructV("Inner", [n \in {"Name", "ID", "Code"} |->
        CASE n = "Name" -> Str(WordAt(index))
          [] n = "ID" -> Int64V(index)
          [] OTHER -> RandString(-1, a.seed + index)])

\* field n of element e has no directive and no override entry, and the loop
\* came past it
PlainAndSet(n, e) ==
    /\ FieldOf(typ, n).tag = <<>> /\ ~EffectiveHas(n) /\ Processed(n, e)
    /\ IsErr(ErrOfElem(e)) => ErrOfElem(e).field # n

\* C24: a slice field without directive or override holds DefaultSliceLen
\* elements, element j generated with the index j whatever the index of the
\* record; the fields of a nested struct field (and of the struct a pointer
\* field points to) are generated with the record's index and seed.
C24_IndexIntoComposites ==
    Happened =>
        \A e \in Touched : \A n \in FieldNames(typ) :
            PlainAndSet(n, e) =>
                /\ FieldOf(typ, n).type = "[]string" =>
                      recs[e][n] = SliceV("[]string",
                          [j \in 1..DefaultSliceLen |-> Str(WordAt(j - 1))])
                /\ FieldOf(typ, n).type = "[]Inner" =>
                      recs[e][n] = SliceV("[]Inner",
                          [j \in 1..DefaultSliceLen |-> InnerAt(j - 1)])
                /\ FieldOf(typ, n).type = "Inner" =>
                      recs[e][n] = InnerAt(IndexOfElem(e))
                /\ FieldOf(typ, n).type = "*Inner" =>
                      recs[e][n] = PtrTo("*Inner", InnerAt(IndexOfElem(e)))

\* C24's case: FillWithIndex at index 2 on a record with a slice of strings
\* and a nested struct: the slice holds "hello", "world", "test", generated
\* with the indices 0, 1, 2, and the nested struct's ID, tagged seq, is 2.
C24_Witness ==
    /\ Succeeded /\ last.index = 2 /\ last.overrides = <<>>
    /\ {"Tags", "In"} \subseteq FieldNames(typ)
    /\ FieldOf(typ, "In").type = "Inner"
    /\ recs[1].Tags.v = <<Str(Lit.hello), Str(Lit.world), Str(Lit.test)>>
    /\ recs[1].In.v.ID = Int64V(2)
    /\ recs[1].In.v.Name = Str(Lit.test)

\* the record has a field whose nested struct is given a value that its field
\* cannot hold (C27's subject)
HasMistagged ==
    \E i \in 1..Len(typ) : typ[i].type \in {"Mistagged", "*Mistagged", "[]Mistagged"}

\* C26: at every index FillWithIndex accepts, the negative ones included, no
\* generator indexes outside its list of options (the call does not panic),
\* and a field tagged min=N,max=M with N <= M holds a number of [N, M].
C26_AnyIndexIsSafe ==
    (last.op = "FillWithIndex" /\ ~HasMistagged) =>
        /\ last.err.msg # "panic"
        /\ \A n \in FieldNames(typ) :
              (/\ IsRange(n) /\ RangeMin(n) <= RangeMax(n)
               /\ ~EffectiveHas(n) /\ Processed(n, 1) /\ ErrOfElem(1).field # n) =>
                    recs[1][n].v >= RangeMin(n) /\ recs[1][n].v <= RangeMax(n)

\* the two halves of C26 taken apart, for the indices below zero
C26_NegativeIndexPanics ==
    /\ last.op = "FillWithIndex" /\ ~HasMistagged /\ last.index = -1
    /\ last.err.msg = "panic" /\ last.err.field = "Name"
C26_NegativeIndexBelowMin ==
    /\ last.op = "FillWithIndex" /\ last.index = -1 /\ last.overrides = <<>>
    /\ "Age" \in FieldNames(typ) /\ FieldOf(typ, "Age").tag = Tag.range
    /\ recs[1].Age = IntV(17)
    /\ last.err.msg = "panic" /\ last.err.field = "Kind"

\* the field of the record whose nested struct cannot hold what its directive
\* produces
MistaggedField ==
    CHOOSE n \in FieldNames(typ) :
        FieldOf(typ, n).type \in {"Mistagged", "*Mistagged", "[]Mistagged"}

\* C27: a produced value that does not convert to its field's type is an
\* error the call returns, naming the field, and never a panic, also when the
\* field is one of a nested struct, of the struct a pointer field points to
\* or of a slice element.
C27_MismatchIsAnError ==
    (/\ Happened /\ HasMistagged /\ IndexOfElem(1) >= 0
     /\ ~EffectiveHas(MistaggedField)) =>
        /\ IsErr(last.err) /\ last.err.msg # "panic"
        /\ last.err.field = MistaggedField

\* the panic of fillStructValue's Convert reached through a nested struct, a
\* pointer and a slice element
C27_PanicsInNestedStruct ==
    /\ last.op = "FillWithIndex" /\ last.index = 0 /\ last.overrides = <<>>
    /\ HasMistagged /\ FieldOf(typ, MistaggedField).type = "Mistagged"
    /\ last.err.msg = "panic" /\ recs[1].Name = Str(Lit.hello)
C27_PanicsInPointee ==
    /\ last.op = "FillWithIndex" /\ last.index = 0 /\ last.overrides = <<>>
    /\ HasMistagged /\ FieldOf(typ, MistaggedField).type = "*Mistagged"
    /\ last.err.msg = "panic"
C27_PanicsInSliceElement ==
    /\ last.op = "FillSlice" /\ last.overrides = <<>>
    /\ HasMistagged /\ FieldOf(typ, MistaggedField).type = "[]Mistagged"
    /\ last.err.msg = "panic"

\* a field whose directive has no rule= token and a first token without "="
\* that is a keyword, resp. is no keyword but a name of the instance's RuleSet
BareKeyword(n) ==
    /\ FieldOf(typ, n).tag # <<>> /\ FieldOf(typ, n).tag # Tag.skip
    /\ ~HasRuleToken(n) /\ ~Contains(MainTag(n), 61) /\ MainTag(n) \in Keywords
BareRuleName(n) ==
    /\ FieldOf(typ, n).tag # <<>> /\ FieldOf(typ, n).tag # Tag.skip
    /\ ~HasRuleToken(n) /\ ~Contains(MainTag(n), 61) /\ MainTag(n) \notin Keywords
    /\ HasRule(a.rules, MainTag(n))
BareRuleOutcome(n, e) == RuleGenerate(a.rules.m[MainTag(n)], FieldCtx(n, e))

\* the field holds the outcome of a generation, or the call failed at it with
\* the outcome's error
FieldGot(n, e, gen) ==
    IF IsErr(gen.err)
    THEN ErrOfElem(e).msg = gen.err.msg /\ ErrOfElem(e).field = n
    ELSE /\ recs[e][n] = Convert(gen.val, FieldOf(typ, n).type)
         /\ IsErr(ErrOfElem(e)) => ErrOfElem(e).field # n

\* C29: a directive whose first token is one of the bare keywords seq, now,
\* email, url, uuid (and that has no rule= token) gives the field the built-in
\* generator's value whatever the RuleSet has under that name; a rule of a
\* keyword's name is what rule=<name> runs, and a bare token that is no
\* keyword runs the rule registered under it.
C29_KeywordBeforeRule ==
    Happened =>
        \A e \in Touched : \A n \in FieldNames(typ) :
            (~EffectiveHas(n) /\ Processed(n, e) /\ IndexOfElem(e) >= 0) =>
                /\ BareKeyword(n) =>
                      /\ ~IsErr(Builtin(MainTag(n), FieldCtx(n, e)).err)
                      /\ FieldGot(n, e, Builtin(MainTag(n), FieldCtx(n, e)))
                /\ BareRuleName(n) => FieldGot(n, e, BareRuleOutcome(n, e))
                /\ (/\ HasRuleToken(n) /\ TagParams(n)[K.rule] \in Keywords
                    /\ HasRule(a.rules, TagParams(n)[K.rule])) =>
                      FieldGot(n, e, RuleOutcome(n, e))

\* C29's case: an instance whose RuleSet has a failing rule under the name of
\* every keyword populated a record with the tags email, url, uuid, seq, now,
\* alphanumeric and rule=email at index 1: the first fields hold the built-in
\* values, the sixth the value of the rule "alphanumeric", and the call failed
\* at the last with the error of the rule registered as "email".
C29_Witness ==
    /\ Happened /\ last.index = 1 /\ last.overrides = <<>>
    /\ ~a.rules.isNil
    /\ \A k \in Keywords : HasRule(a.rules, k) /\ a.rules.m[k].kind = "failing"
    /\ {"Email", "Link", "ID", "Stamp", "Nick", "Mail"} \subseteq FieldNames(typ)
    /\ \A n \in {"Email", "Link", "ID", "Stamp"} : BareKeyword(n)
    /\ recs[1].Email = Str(Lit.test \o Itoa(1) \o Lit.at \o Lit.test_com)
    /\ recs[1].ID = Int64V(1)
    /\ BareRuleName("Nick") /\ recs[1].Nick = BareRuleOutcome("Nick", 1).val
    /\ recs[1].Nick # Str(Lit.world)
    /\ FieldOf(typ, "Mail").tag = Tag.rule
    /\ ErrOfElem(1).field = "Mail" /\ ErrOfElem(1).msg = RuleOutcome("Mail", 1).err.msg
    /\ recs[1].Mail = last.before[1].Mail

\* the keys of the call's override maps, and the names of the fields of the
\* structs nested in the record
OverrideKeys == UNION {DOMAIN last.overrides[k] : k \in 1..Len(last.overrides)}
NestedNames ==
    UNION {FieldNames(Nested[s]) : s \in StructKinds}

\* the last call's outcome and the outcome of the same call on the same
\* records without override maps
SameAsWithout ==
    IF last.op = "FillSlice"
    THEN /\ recs = FillSlice(a, last.arg, typ, last.before, <<>>).recs
         /\ last.err = FillSlice(a, last.arg, typ, last.before, <<>>).err
    ELSE /\ recs[1] = FillWithIndex(a, last.arg, typ, last.before[1], last.index, <<>>).rec
         /\ last.err = FillWithIndex(a, last.arg, typ, last.before[1], last.index, <<>>).err

\* C30: override maps are looked up with the names of the record's own
\* fields only. A field of a nested struct, of the struct a pointer field
\* points to or of the structs of a slice holds what its directive or type
\* gives, whatever entry the maps have under its name, and a call whose maps
\* have no key that is a field of the record does what the call without maps
\* does, error included.
C30_OverridesAreTopLevel ==
    Happened =>
        /\ \A e \in Touched : \A n \in FieldNames(typ) :
              (/\ ~EffectiveHas(n) /\ Processed(n, e) /\ IndexOfElem(e) >= 0
               /\ IsErr(ErrOfElem(e)) => ErrOfElem(e).field # n) =>
                  /\ FieldOf(typ, n).type = "Inner" =>
                        \A m \in FieldNames(Nested.Inner) :
                            recs[e][n].v[m] = InnerAt(IndexOfElem(e)).v[m]
                  /\ FieldOf(typ, n).type = "*Inner" =>
                        recs[e][n] = PtrTo("*Inner", InnerAt(IndexOfElem(e)))
                  /\ FieldOf(typ, n).type = "[]Inner" =>
                        \A j \in 1..DefaultSliceLen : \A m \in FieldNames(Nested.Inner) :
                            recs[e][n].v[j].v[m] = InnerAt(j - 1).v[m]
        /\ (OverrideKeys \cap FieldNames(typ) = {} /\ last.defaults = EmptyOverride)
              => SameAsWithout

\* C30's case: FillWithIndex at index 2 with the map {"ID": 65} on a record
\* with the fields Name, Tags and In: ID names a field of the nested struct
\* and none of the record. The call succeeded and In.ID is the index, as it is
\* without the map.
C30_Witness ==
    /\ Succeeded /\ last.op = "FillWithIndex" /\ last.index = 2
    /\ Len(last.overrides) = 1 /\ DOMAIN last.overrides[1] = {"ID"}
    /\ last.overrides[1].ID = Int64V(65)
    /\ "ID" \in NestedNames /\ "ID" \notin FieldNames(typ)
    /\ "In" \in FieldNames(typ) /\ FieldOf(typ, "In").type = "Inner"
    /\ recs[1].In.v.ID = Int64V(2)
    /\ SameAsWithout

\* a top-level entry that shares its name with a nested field: Name is set
\* from the map, In.Name is generated
C30_SameNameNested ==
    /\ Succeeded /\ last.op = "FillWithIndex" /\ last.index = 1
    /\ Len(last.overrides) = 1 /\ DOMAIN last.overrides[1] = {"Name"}
    /\ "In" \in FieldNames(typ) /\ FieldOf(typ, "In").type = "Inner"
    /\ recs[1].Name = Str(S_adm) /\ recs[1].In.v.Name = Str(Lit.world)

-----------------------------------------------------------------------------
(* The rule registry: rules.RuleSet.                                        *)
(* A Go map is a function from the registered names to rules; a rule is     *)
(* known by its identity. Each operation below is what the method does to   *)
(* the map while it holds the set's lock.                                   *)

MaxSets == 2    \* RuleSet objects in sequential use

RuleNames == {"email", "phone"}
RuleIds   == {"rule1", "rule2"}

NoRule == "nil"
NewRuleSet == [n \in {} |-> NoRule]

\* Add that keeps the rule a name has already
Add_KeepsExisting(m, name, rule) ==
    [n \in DOMAIN m \cup {name} |-> IF n \in DOMAIN m THEN m[n] ELSE rule]

Add(m, name, rule) ==
    [n \in DOMAIN m \cup {name} |-> IF n = name THEN rule ELSE m[n]]

Get(m, name) ==
    IF name \in DOMAIN m THEN [rule |-> m[name], ok |-> TRUE]
    ELSE [rule |-> NoRule, ok |-> FALSE]

Has(m, name) == name \in DOMAIN m

\* the map and the result of Remove
Remove(m, name) ==
    IF name \in DOMAIN m
    THEN [m |-> [n \in DOMAIN m \ {name} |-> m[n]], ok |-> TRUE]
    ELSE [m |-> m, ok |-> FALSE]

\* Extend with the other set's entries keeping the names the set has
Extend_NoNewNames(m, other) ==
    [n \in DOMAIN m |-> IF n \in DOMAIN other THEN other[n] ELSE m[n]]

\* Extend keeping the set's own rule for a name both sets have
Extend_KeepsExisting(m, other) ==
    [n \in DOMAIN m \cup DOMAIN other |-> IF n \in DOMAIN m THEN m[n] ELSE other[n]]

\* rs.rules after the loop of Extend over other.rules (other is not nil)
Extend(m, other) ==
    [n \in DOMAIN m \cup DOMAIN other |-> IF n \in DOMAIN other THEN other[n] ELSE m[n]]

\* Names returns the names in the order the map iteration visits them: any order
Names(m) ==
    {order \in [1..Cardinality(DOMAIN m) -> DOMAIN m] :
        \A n \in DOMAIN m : \E k \in 1..Len(order) : order[k] = n}

\* the map of the new set Clone fills entry by entry
CloneRules(m) == [n \in DOMAIN m |-> m[n]]

-----------------------------------------------------------------------------
(* The registry used by one goroutine. sets[i].rules is the address of the  *)
(* set's map in maps; sets[i].from records which set it was cloned from     *)
(* (0: made by NewRuleSet).                                                 *)

\* Clone returning a set that points to the map of the original
Clone_SharesMap(ss, hp, rs) ==
    [sets |-> Append(ss, [rules |-> ss[rs].rules, from |-> rs]), maps |-> hp]

\* Clone: a new RuleSet with a map of its own, holding the same entries
Clone(ss, hp, rs) ==
    [sets |-> Append(ss, [rules |-> Len(hp) + 1, from |-> rs]),
     maps |-> Append(hp, CloneRules(hp[ss[rs].rules]))]

Contents == [i \in 1..Len(sets) |-> maps[sets[i].rules]]

RegCalled(op, rs, other, name, rule, result) ==
    [op |-> op, rs |-> rs, other |-> other, name |-> name, rule |-> rule,
     result |-> result, before |-> Contents]

SeqInit ==
    /\ maps = <<NewRuleSet>>
    /\ sets = <<[rules |-> 1, from |-> 0]>>
    /\ rlast = [op |-> "none", rs |-> 0, other |-> 0, name |-> "", rule |-> NoRule,
                result |-> 0, before |-> <<>>]

NewRuleSetCall ==
    /\ Len(sets) < MaxSets
    /\ sets' = Append(sets, [rules |-> Len(maps) + 1, from |-> 0])
    /\ maps' = Append(maps, NewRuleSet)
    /\ rlast' = RegCalled("NewRuleSet", 0, 0, "", NoRule, Len(sets) + 1)
    /\ UNCHANGED <<fillVars, concVars>>

AddCall ==
    \E rs \in 1..Len(sets) : \E name \in RuleNames : \E rule \in RuleIds :
        /\ maps' = [maps EXCEPT ![sets[rs].rules] = Add(@, name, rule)]
        /\ rlast' = RegCalled("Add", rs, 0, name, rule, rs)
        /\ UNCHANGED <<sets, fillVars, concVars>>

GetCall ==
    \E rs \in 1..Len(sets) : \E name \in RuleNames :
        /\ rlast' = RegCalled("Get", rs, 0, name, NoRule, Get(maps[sets[rs].rules], name))
        /\ UNCHANGED <<sets, maps, fillVars, concVars>>

HasCall ==
    \E rs \in 1..Len(sets) : \E name \in RuleNames :
        /\ rlast' = RegCalled("Has", rs, 0, name, NoRule, Has(maps[sets[rs].rules], name))
        /\ UNCHANGED <<sets, maps, fillVars, concVars>>

RemoveCall ==
    \E rs \in 1..Len(sets) : \E name \in RuleNames :
        /\ maps' = [maps EXCEPT ![sets[rs].rules] = Remove(@, name).m]
        /\ rlast' = RegCalled("Remove", rs, 0, name, NoRule,
                              Remove(maps[sets[rs].rules], name).ok)
        /\ UNCHANGED <<sets, fillVars, concVars>>

\* other = 0 is the nil pointer. A set extended by itself is a call that takes
\* the set's lock twice: it is in the concurrent model below.
ExtendCall ==
    \E rs \in 1..Len(sets) : \E other \in (0..Len(sets)) \ {rs} :
        /\ maps' = IF other = 0 THEN maps
                   ELSE [maps EXCEPT ![sets[rs].rules] = Extend(@, maps[sets[other].rules])]
        /\ rlast' = RegCalled("Extend", rs, other, "", NoRule, rs)
        /\ UNCHANGED <<sets, fillVars, concVars>>

NamesCall ==
    \E rs \in 1..Len(sets) : \E order \in Names(maps[sets[rs].rules]) :
        /\ rlast' = RegCalled("Names", rs, 0, "", NoRule, order)
        /\ UNCHANGED <<sets, maps, fillVars, concVars>>

CloneCall ==
    \E rs \in 1..Len(sets) :
        /\ Len(sets) < MaxSets
        /\ sets' = Clone(sets, maps, rs).sets
        /\ maps' = Clone(sets, maps, rs).maps
        /\ rlast' = RegCalled("Clone", rs, 0, "", NoRule, Len(sets) + 1)
        /\ UNCHANGED <<fillVars, concVars>>

RegNext ==
    NewRuleSetCall \/ AddCall \/ GetCall \/ HasCall \/ RemoveCall \/ ExtendCall \/ NamesCall \/ CloneCall

\* the sets of the last Extend(other) with a non-nil other, before and after it
Extended == rlast.op = "Extend" /\ rlast.other # 0
Mine   == rlast.before[rlast.rs]
Theirs == rlast.before[rlast.other]
MineNow == Contents[rlast.rs]

\* C6 (as the spec states it): after A.Extend(B), a name both sets had keeps
\* A's rule (A.Get returns A's rule), and a name only B had is in A with B's
\* rule.
C6_ExtendKeepsExisting ==
    Extended =>
        \A x \in RuleNames :
            /\ (x \in DOMAIN Mine /\ x \in DOMAIN Theirs)
               => Get(MineNow, x) = [rule |-> Mine[x], ok |-> TRUE]
            /\ (x \notin DOMAIN Mine /\ x \in DOMAIN Theirs)
               => Get(MineNow, x) = [rule |-> Theirs[x], ok |-> TRUE]

\* C6 (amended): after A.Extend(B), A has every name of B with B's rule, a
\* name both sets had included; A's other names keep their rules, A has no
\* further name, and B is as before.
C6_ExtendReplacesExisting ==
    Extended =>
        /\ DOMAIN MineNow = DOMAIN Mine \cup DOMAIN Theirs
        /\ \A x \in DOMAIN Theirs : MineNow[x] = Theirs[x]
        /\ \A x \in DOMAIN Mine \ DOMAIN Theirs : MineNow[x] = Mine[x]
        /\ Contents[rlast.other] = Theirs

\* C6's case: A and B had a name with different rules, B had a name A had
\* not, and A.Extend(B) was called.
C6_Witness ==
    /\ Extended
    /\ \E x \in DOMAIN Mine \cap DOMAIN Theirs : Mine[x] # Theirs[x] /\ MineNow[x] = Theirs[x]
    /\ \E y \in DOMAIN Theirs \ DOMAIN Mine : MineNow[y] = Theirs[y]

\* C7: after rs2.Extend(rs1), rs2.Get(x) returns rs1's rule for every name x
\* that both sets had.
C7_ExtendOverwrites ==
    Extended =>
        \A x \in DOMAIN Mine \cap DOMAIN Theirs :
            Get(MineNow, x) = [rule |-> Theirs[x], ok |-> TRUE]

\* C7's case: both sets had the name "email", with rule2 in rs2 and rule1 in
\* rs1, and rs2.Extend(rs1) was called: rs2 now gives rule1.
C7_Witness ==
    /\ Extended
    /\ "email" \in DOMAIN Mine /\ Mine["email"] = "rule2"
    /\ "email" \in DOMAIN Theirs /\ Theirs["email"] = "rule1"
    /\ Get(MineNow, "email").rule = "rule1"

\* C8: the set Clone returns has the mapping the set had at the call and the
\* set itself is as before; and an Add, a Remove or an Extend on a set leaves
\* the mapping of every other set as it was, the set's clones and the set it
\* was cloned from among them.
C8_CloneIndependent ==
    /\ rlast.op = "Clone" =>
          /\ rlast.result \notin 1..Len(rlast.before)
          /\ Contents[rlast.result] = rlast.before[rlast.rs]
          /\ \A t \in 1..Len(rlast.before) : Contents[t] = rlast.before[t]
    /\ rlast.op \in {"Add", "Remove", "Extend"} =>
          \A t \in 1..Len(sets) : t # rlast.rs => Contents[t] = rlast.before[t]

\* C8's case: a set and its clone, an Add on the set that changed it: the
\* clone does not have the change.
C8_Witness ==
    /\ rlast.op = "Add"
    /\ Contents[rlast.rs] # rlast.before[rlast.rs]
    /\ \E t \in 1..Len(sets) :
        /\ sets[t].from = rlast.rs
        /\ Contents[t] # Contents[rlast.rs]
        /\ rlast.before[t] = rlast.before[rlast.rs]
\* the mapping of the set of the last registry call, before and after it
SetBefore == rlast.before[rlast.rs]
SetNow == Contents[rlast.rs]
OthersKept(name) ==
    \A x \in RuleNames \ {name} :
        /\ Has(SetNow, x) <=> Has(SetBefore, x)
        /\ Has(SetBefore, x) => Get(SetNow, x) = Get(SetBefore, x)

\* C25: what Add and Remove do to a RuleSet, and what Has, Get and Names
\* report of it. After Add(n, r) the set has n with the rule r, whatever it had
\* under n before; after Remove(n) it has not, and Remove returned true exactly
\* when it had; either leaves every other name's entry as it was. Has and Get
\* answer by the entries the set has, and Names lists the names it has, each
\* once. By induction over a sequence of Add and Remove calls, a name is in the
\* set, with the rule of that Add, exactly when the last of them applied to
\* it was an Add.
C25_AddRemoveLastWins ==
    /\ rlast.op = "Add" =>
          /\ Has(SetNow, rlast.name)
          /\ Get(SetNow, rlast.name) = [rule |-> rlast.rule, ok |-> TRUE]
          /\ OthersKept(rlast.name)
    /\ rlast.op = "Remove" =>
          /\ rlast.result = (rlast.name \in DOMAIN SetBefore)
          /\ ~Has(SetNow, rlast.name)
          /\ Get(SetNow, rlast.name) = [rule |-> NoRule, ok |-> FALSE]
          /\ OthersKept(rlast.name)
    /\ rlast.op = "Has" =>
          /\ rlast.result = (rlast.name \in DOMAIN SetNow)
          /\ SetNow = SetBefore
    /\ rlast.op = "Get" =>
          /\ rlast.result.ok = (rlast.name \in DOMAIN SetNow)
          /\ rlast.result.ok => rlast.result.rule = SetNow[rlast.name]
          /\ SetNow = SetBefore
    /\ rlast.op = "Names" =>
          /\ {rlast.result[k] : k \in 1..Len(rlast.result)} = DOMAIN SetNow
          /\ \A j, k \in 1..Len(rlast.result) :
                rlast.result[j] = rlast.result[k] => j = k
          /\ SetNow = SetBefore

\* C25's case: a set that had both names, Remove called for one of them:
\* Remove returned true, the name is gone and the other name has its rule
\* still.
C25_Witness ==
    /\ rlast.op = "Remove" /\ rlast.result = TRUE
    /\ DOMAIN SetBefore = RuleNames
    /\ DOMAIN SetNow = RuleNames \ {rlast.name}
    /\ \A x \in DOMAIN SetNow : SetNow[x] = SetBefore[x]

-----------------------------------------------------------------------------
(* The registry used by several goroutines at once. Two RuleSets, each with *)
(* its sync.RWMutex: writer is the goroutine that called Lock (0: none),    *)
(* held says that its Lock has returned, readers are the goroutines that    *)
(* hold a read lock. A goroutine that called Lock keeps later RLock calls   *)
(* waiting, and waits itself until the readers are gone.                    *)

NumProcs == 2   \* goroutines
MaxCalls == 1   \* calls each goroutine makes

Procs    == 1..NumProcs
ConcSets == {1, 2}

\* The methods that take the set's lock for writing: the others take it for
\* reading. (Extend taking only a read lock on the set it writes.)
Writes_NotExtend(op) == op \in {"Add", "Remove"}

Writes(op) == op \in {"Add", "Remove", "Extend"}

\* the methods that range over a map, entry by entry
Ranges(op) == op \in {"Names", "Clone", "Extend"}

CanRLock(m) == m.writer = 0
CanLock(m) == m.writer = 0
LockReturns(m) == m.readers = {}

Unlocked == [writer |-> 0, held |-> FALSE, readers |-> {}]

InFlight(g) == pc[g] \notin {"idle", "done"}

\* The calls one at a time: what a call does to the sets when nothing runs
\* beside it (mp: the map of each set), and what it returns.
SerialApply(c, mp) ==
    IF c.op = "Add" THEN [mp EXCEPT ![c.rs] = Add(@, c.name, c.rule)]
    ELSE IF c.op = "Remove" THEN [mp EXCEPT ![c.rs] = Remove(@, c.name).m]
    ELSE IF c.op = "Extend" /\ c.other # 0
    THEN [mp EXCEPT ![c.rs] = Extend(@, mp[c.other])]
    ELSE mp

SerialResult(c, mp) ==
    IF c.op = "Get" THEN [t |-> "Get", v |-> Get(mp[c.rs], c.name)]
    ELSE IF c.op = "Has" THEN [t |-> "Has", v |-> Has(mp[c.rs], c.name)]
    ELSE IF c.op = "Remove" THEN [t |-> "Remove", v |-> Remove(mp[c.rs], c.name).ok]
    ELSE IF c.op = "Names" THEN [t |-> "Names", v |-> Names(mp[c.rs])]
    ELSE IF c.op = "Clone" THEN [t |-> "Clone", v |-> CloneRules(mp[c.rs])]
    ELSE [t |-> c.op, v |-> c.rs]

NoResult == [t |-> "none", v |-> 0]

ConcInit ==
    /\ mu = [s \in ConcSets |-> Unlocked]
    /\ rules = [s \in ConcSets |->
                  [n \in RuleNames |-> IF s = 1 THEN "rule1" ELSE "rule2"]]
    /\ ser = rules
    /\ pc = [g \in Procs |-> "idle"]
    /\ call = [g \in Procs |->
                 [op |-> "none", rs |-> 0, other |-> 0, name |-> "", rule |-> NoRule,
                  seen |-> {}, names |-> <<>>, newRS |-> NewRuleSet,
                  result |-> NoResult, expect |-> NoResult,
                  overlap |-> FALSE, n |-> 0]]

\* the calls a goroutine may make
CallsOn(rs) ==
    {[op |-> op, rs |-> rs, other |-> 0, name |-> name, rule |-> NoRule] :
        op \in {"Get", "Has", "Remove"}, name \in RuleNames}
    \cup {[op |-> "Add", rs |-> rs, other |-> 0, name |-> name, rule |-> rule] :
        name \in RuleNames, rule \in RuleIds}
    \cup {[op |-> op, rs |-> rs, other |-> 0, name |-> "", rule |-> NoRule] :
        op \in {"Names", "Clone"}}
    \cup {[op |-> "Extend", rs |-> rs, other |-> other, name |-> "", rule |-> NoRule] :
        other \in {0} \cup ConcSets}

\* A goroutine calls a method. Extend(nil) returns at once; Extend(other)
\* first takes other's read lock; every other method goes for the set's lock.
Invoke(g) ==
    /\ pc[g] \in {"idle", "done"}
    /\ call[g].n < MaxCalls
    /\ \E rs \in ConcSets : \E c \in CallsOn(rs) :
        /\ call' = [h \in Procs |->
                      IF h = g
                      THEN [op |-> c.op, rs |-> c.rs, other |-> c.other,
                            name |-> c.name, rule |-> c.rule,
                            seen |-> {}, names |-> <<>>, newRS |-> NewRuleSet,
                            result |-> IF c.op = "Extend" /\ c.other = 0
                                       THEN [t |-> "Extend", v |-> c.rs] ELSE NoResult,
                            expect |-> IF c.op = "Extend" /\ c.other = 0
                                       THEN [t |-> "Extend", v |-> c.rs] ELSE NoResult,
                            overlap |-> \E k \in Procs \ {g} : InFlight(k),
                            n |-> call[g].n + 1]
                      ELSE IF InFlight(h) THEN [call[h] EXCEPT !.overlap = TRUE]
                      ELSE call[h]]
        /\ pc' = [pc EXCEPT ![g] = IF c.op # "Extend" THEN "acquire"
                                   ELSE IF c.other = 0 THEN "done"
                                   ELSE "rlockOther"]
    /\ UNCHANGED <<mu, rules, ser, fillVars, seqVars>>

\* other.mu.RLock() of Extend
RLockOther(g) ==
    /\ pc[g] = "rlockOther"
    /\ CanRLock(mu[call[g].other])
    /\ mu' = [mu EXCEPT ![call[g].other].readers = @ \cup {g}]
    /\ pc' = [pc EXCEPT ![g] = "acquire"]
    /\ UNCHANGED <<rules, call, ser, fillVars, seqVars>>

\* The call has its lock on the set: from here to its unlock no other call
\* is to be seen in what it reads or writes. In the one-at-a-time order the
\* call stands here.
Locked(g) ==
    /\ ser' = SerialApply(call[g], ser)
    /\ call' = [call EXCEPT ![g].expect = SerialResult(call[g], ser)]
    /\ pc' = [pc EXCEPT ![g] = IF Ranges(call[g].op) THEN "range" ELSE "body"]

\* rs.mu.RLock()
RLock(g) ==
    /\ pc[g] = "acquire"
    /\ ~Writes(call[g].op)
    /\ CanRLock(mu[call[g].rs])
    /\ mu' = [mu EXCEPT ![call[g].rs].readers = @ \cup {g}]
    /\ Locked(g)
    /\ UNCHANGED <<rules, fillVars, seqVars>>

\* rs.mu.Lock(), first half: the goroutine is the writer-to-be
LockBegin(g) ==
    /\ pc[g] = "acquire"
    /\ Writes(call[g].op)
    /\ CanLock(mu[call[g].rs])
    /\ mu' = [mu EXCEPT ![call[g].rs].writer = g]
    /\ pc' = [pc EXCEPT ![g] = "lockWait"]
    /\ UNCHANGED <<rules, call, ser, fillVars, seqVars>>

\* rs.mu.Lock(), second half: the readers are gone, Lock returns
LockAcquire(g) ==
    /\ pc[g] = "lockWait"
    /\ LockReturns(mu[call[g].rs])
    /\ mu' = [mu EXCEPT ![call[g].rs].held = TRUE]
    /\ Locked(g)
    /\ UNCHANGED <<rules, fillVars, seqVars>>

\* the body of Add, Get, Has or Remove
Body(g) ==
    /\ pc[g] = "body"
    /\ rules' = IF call[g].op = "Add"
                THEN [rules EXCEPT ![call[g].rs] = Add(@, call[g].name, call[g].rule)]
                ELSE IF call[g].op = "Remove"
                THEN [rules EXCEPT ![call[g].rs] = Remove(@, call[g].name).m]
                ELSE rules
    /\ call' = [call EXCEPT ![g].result =
                  IF call[g].op = "Get"
                  THEN [t |-> "Get", v |-> Get(rules[call[g].rs], call[g].name)]
                  ELSE IF call[g].op = "Has"
                  THEN [t |-> "Has", v |-> Has(rules[call[g].rs], call[g].name)]
                  ELSE IF call[g].op = "Remove"
                  THEN [t |-> "Remove", v |-> Remove(rules[call[g].rs], call[g].name).ok]
                  ELSE [t |-> "Add", v |-> call[g].rs]]
    /\ pc' = [pc EXCEPT ![g] = "release"]
    /\ UNCHANGED <<mu, ser, fillVars, seqVars>>

\* the map a ranging method ranges over
Ranged(g) == IF call[g].op = "Extend" THEN rules[call[g].other] ELSE rules[call[g].rs]

\* one turn of the loop of Names, Clone or Extend: an entry not yet visited
RangeStep(g) ==
    /\ pc[g] = "range"
    /\ \E name \in DOMAIN Ranged(g) \ call[g].seen :
        /\ call' = [call EXCEPT
                      ![g].seen = @ \cup {name},
                      ![g].names = IF call[g].op = "Names" THEN Append(@, name) ELSE @,
                      ![g].newRS = IF call[g].op = "Clone"
                                   THEN Add(@, name, Ranged(g)[name]) ELSE @]
        /\ rules' = IF call[g].op = "Extend"
                    THEN [rules EXCEPT ![call[g].rs] = Add(@, name, Ranged(g)[name])]
                    ELSE rules
    /\ UNCHANGED <<mu, pc, ser, fillVars, seqVars>>

\* the loop is over: the method has its result
RangeEnd(g) ==
    /\ pc[g] = "range"
    /\ DOMAIN Ranged(g) \subseteq call[g].seen
    /\ call' = [call EXCEPT ![g].result =
                  IF call[g].op = "Names" THEN [t |-> "Names", v |-> call[g].names]
                  ELSE IF call[g].op = "Clone" THEN [t |-> "Clone", v |-> call[g].newRS]
                  ELSE [t |-> "Extend", v |-> call[g].rs]]
    /\ pc' = [pc EXCEPT ![g] = "release"]
    /\ UNCHANGED <<mu, rules, ser, fillVars, seqVars>>

AfterRelease(g) == IF call[g].op = "Extend" THEN "runlockOther" ELSE "done"

\* the deferred rs.mu.Unlock()
Unlock(g) ==
    /\ pc[g] = "release"
    /\ Writes(call[g].op)
    /\ mu' = [mu EXCEPT ![call[g].rs].writer = 0, ![call[g].rs].held = FALSE]
    /\ pc' = [pc EXCEPT ![g] = AfterRelease(g)]
    /\ UNCHANGED <<rules, call, ser, fillVars, seqVars>>

\* the deferred rs.mu.RUnlock()
RUnlock(g) ==
    /\ pc[g] = "release"
    /\ ~Writes(call[g].op)
    /\ mu' = [mu EXCEPT ![call[g].rs].readers = @ \ {g}]
    /\ pc' = [pc EXCEPT ![g] = AfterRelease(g)]
    /\ UNCHANGED <<rules, call, ser, fillVars, seqVars>>

\* the deferred other.mu.RUnlock() of Extend, the last to run
RUnlockOther(g) ==
    /\ pc[g] = "runlockOther"
    /\ mu' = [mu EXCEPT ![call[g].other].readers = @ \ {g}]
    /\ pc' = [pc EXCEPT ![g] = "done"]
    /\ UNCHANGED <<rules, call, ser, fillVars, seqVars>>

\* a step of goroutine g inside its call
Step(g) ==
    \/ RLockOther(g) \/ RLock(g) \/ LockBegin(g) \/ LockAcquire(g)
    \/ Body(g) \/ RangeStep(g) \/ RangeEnd(g)
    \/ Unlock(g) \/ RUnlock(g) \/ RUnlockOther(g)

ConcNext == \E g \in Procs : Invoke(g) \/ Step(g)

\* what the call returned is what it returns in the one-at-a-time order
\* (Names: the same names, in whatever order)
Agrees(c) ==
    /\ c.result.t = c.expect.t
    /\ IF c.op = "Names" THEN c.result.v \in c.expect.v
       ELSE c.result.v = c.expect.v

\* the goroutine is inside the set's mapping, writing it or reading it
InMap(g) == pc[g] \in {"body", "range", "release"}
WriterIn(g, s) == InMap(g) /\ Writes(call[g].op) /\ call[g].rs = s
ReaderIn(g, s) ==
    /\ InMap(g)
    /\ \/ ~Writes(call[g].op) /\ call[g].rs = s
       \/ call[g].op = "Extend" /\ call[g].other = s

\* C9: whatever calls of Add, Get, Has, Remove, Names, Clone and Extend run
\* at once, every call returns what it returns when the calls run one at a
\* time in the order in which they got their locks (an order that keeps a
\* call that returned before another began in front of it), the sets end as
\* that order leaves them, and while a call writes a set's mapping no other
\* call is inside that mapping.
C9_Serializable ==
    /\ \A g \in Procs : pc[g] = "done" => Agrees(call[g])
    /\ \A s \in ConcSets : ~mu[s].held => rules[s] = ser[s]
    /\ \A s \in ConcSets : \A g \in Procs : \A h \in Procs \ {g} :
          WriterIn(g, s) => ~WriterIn(h, s) /\ ~ReaderIn(h, s)

\* C9's case: a Clone of a set and an Extend of the same set that ran at the
\* same time, both returned.
C9_Witness ==
    \E g \in Procs : \E h \in Procs \ {g} :
        /\ pc[g] = "done" /\ pc[h] = "done"
        /\ call[g].overlap /\ call[h].overlap
        /\ call[g].op = "Clone" /\ call[h].op = "Extend"
        /\ call[h].rs = call[g].rs /\ call[h].other \notin {0, call[h].rs}
        /\ Agrees(call[g]) /\ Agrees(call[h])
        /\ rules = ser

\* C10: every call returns: whenever calls are under way, one of them can
\* take its next step (no set of calls waits for one another for ever), the
\* calls a.Extend(b) with b.Extend(a) and the call a.Extend(a) included.
C10_EveryCallReturns ==
    (\E g \in Procs : InFlight(g)) => (\E h \in Procs : InFlight(h) /\ ENABLED Step(h))

Init == FillInit /\ SeqInit /\ ConcInit

Spec == Init /\ [][Next]_vars

CtxSpec == Init /\ [][CtxNext]_vars

MergeSpec == Init /\ [][MergeNext]_vars

DeepSpec == Init /\ [][DeepNext]_vars

RegSpec == Init /\ [][RegNext]_vars

ConcSpec == Init /\ [][ConcNext]_vars

====
